---- MODULE Spec2Model ----
(***************************************************************************)
(* Payroll report engine (PayrollProcessor.insert_subtotals and            *)
(* _create_group_total) and disbursement classifier (BDOConverter.convert) *)
(* of src/app.py.                                                          *)
(*                                                                         *)
(* Cells of a table are tagged tuples: <<"str", s>> a Python str,          *)
(* <<"int", n>> an integer, <<"float", n>> a float whose value is the      *)
(* integer n, <<"nan">> a missing value.  Sums of pay are carried in whole *)
(* currency units, so a float is represented by its integer value.         *)
(***************************************************************************)
EXTENDS Integers, Sequences, FiniteSets, TLC

StrC(s) == <<"str", s>>
IntC(n) == <<"int", n>>
FloatC(n) == <<"float", n>>
NaN == <<"nan">>
Blank == StrC("")

IsStr(c) == c[1] = "str"
IsNum(c) == c[1] \in {"int", "float"}
isna(c) == c[1] = "nan"

(***************************************************************************)
(* Text helpers.  TLC strings support Len, SubSeq and \o.                  *)
(***************************************************************************)
Digits == <<"0", "1", "2", "3", "4", "5", "6", "7", "8", "9">>
DigitSet == {Digits[i] : i \in 1..10}

CharAt(s, i) == SubSeq(s, i, i)

isdigit(s) == Len(s) > 0 /\ \A i \in 1..Len(s) : CharAt(s, i) \in DigitSet

DigitVal(ch) == (CHOOSE i \in 1..10 : Digits[i] = ch) - 1

RECURSIVE ParseNat(_)
ParseNat(s) ==
    IF Len(s) = 0 THEN 0
    ELSE 10 * ParseNat(SubSeq(s, 1, Len(s) - 1)) + DigitVal(CharAt(s, Len(s)))

(* float(value) if pd.notna(value) else default; ValueError/TypeError -> default *)
safe_float(c) ==
    IF isna(c) THEN 0
    ELSE IF IsNum(c) THEN c[2]
    ELSE IF isdigit(c[2]) THEN ParseNat(c[2])
    ELSE 0

(***************************************************************************)
(* Python str operations used by BDOConverter.convert                      *)
(***************************************************************************)
RECURSIVE NatToStr(_)
NatToStr(n) ==
    IF n < 10 THEN Digits[n + 1]
    ELSE NatToStr(n \div 10) \o Digits[(n % 10) + 1]

(* str(int(v)) *)
IntToStr(n) == IF n < 0 THEN "-" \o NatToStr(0 - n) ELSE NatToStr(n)

(* str(x) of a cell; a float prints with its fractional part, 1001.0 *)
PyStr(c) ==
    IF isna(c) THEN "nan"
    ELSE IF c[1] = "int" THEN IntToStr(c[2])
    ELSE IF c[1] = "float" THEN IntToStr(c[2]) \o ".0"
    ELSE c[2]

RECURSIVE LStrip(_)
LStrip(s) ==
    IF Len(s) > 0 /\ CharAt(s, 1) = " " THEN LStrip(SubSeq(s, 2, Len(s))) ELSE s

RECURSIVE RStrip(_)
RStrip(s) ==
    IF Len(s) > 0 /\ CharAt(s, Len(s)) = " " THEN RStrip(SubSeq(s, 1, Len(s) - 1)) ELSE s

strip(s) == RStrip(LStrip(s))

(* s.replace(ch, '') *)
RECURSIVE RemoveChar(_, _)
RemoveChar(s, ch) ==
    IF Len(s) = 0 THEN ""
    ELSE (IF CharAt(s, 1) = ch THEN "" ELSE CharAt(s, 1))
         \o RemoveChar(SubSeq(s, 2, Len(s)), ch)

(* s.split('.')[0] *)
RECURSIVE BeforeDot(_)
BeforeDot(s) ==
    IF Len(s) = 0 \/ CharAt(s, 1) = "." THEN ""
    ELSE CharAt(s, 1) \o BeforeDot(SubSeq(s, 2, Len(s)))

(* ''.join(filter(str.isdigit, s)) *)
RECURSIVE FilterDigits(_)
FilterDigits(s) ==
    IF Len(s) = 0 THEN ""
    ELSE (IF CharAt(s, 1) \in DigitSet THEN CharAt(s, 1) ELSE "")
         \o FilterDigits(SubSeq(s, 2, Len(s)))

(* s.zfill(width) of a digit string *)
RECURSIVE zfill(_, _)
zfill(s, width) == IF Len(s) >= width THEN s ELSE zfill("0" \o s, width)

LowerAlpha ==
    <<"a", "b", "c", "d", "e", "f", "g", "h", "i", "j", "k", "l", "m",
      "n", "o", "p", "q", "r", "s", "t", "u", "v", "w", "x", "y", "z">>
UpperAlpha ==
    <<"A", "B", "C", "D", "E", "F", "G", "H", "I", "J", "K", "L", "M",
      "N", "O", "P", "Q", "R", "S", "T", "U", "V", "W", "X", "Y", "Z">>

UpperChar(ch) ==
    IF \E i \in 1..26 : LowerAlpha[i] = ch
    THEN UpperAlpha[CHOOSE i \in 1..26 : LowerAlpha[i] = ch]
    ELSE ch

LowerChar(ch) ==
    IF \E i \in 1..26 : UpperAlpha[i] = ch
    THEN LowerAlpha[CHOOSE i \in 1..26 : UpperAlpha[i] = ch]
    ELSE ch

RECURSIVE upper(_)
upper(s) ==
    IF Len(s) = 0 THEN "" ELSE UpperChar(CharAt(s, 1)) \o upper(SubSeq(s, 2, Len(s)))

RECURSIVE lower(_)
lower(s) ==
    IF Len(s) = 0 THEN "" ELSE LowerChar(CharAt(s, 1)) \o lower(SubSeq(s, 2, Len(s)))

(* sub in s *)
Contains(s, sub) ==
    \E i \in 1..(Len(s) - Len(sub) + 1) : SubSeq(s, i, i + Len(sub) - 1) = sub

(* val and val.replace('.', '').replace('-', '').isdigit() *)
IsNumericToken(val) == Len(val) > 0 /\ isdigit(RemoveChar(RemoveChar(val, "."), "-"))

(***************************************************************************)
(* Fixed tables of the report engine.                                      *)
(***************************************************************************)
DEPT_TOTALS ==
    <<"TOTAL IND2001", "TOTAL IND2005", "TOTAL IND2101", "TOTAL IND2102",
      "TOTAL IND202", "TOTAL IND202-1", "TOTAL IND203", "TOTAL IND203-1",
      "TOTAL IND204", "TOTAL IND205", "TOTAL IND503", "TOTAL IND506",
      "TOTAL IND702", "TOTAL D2001", "TOTAL D2005", "TOTAL IND1002">>

(* a label made from the key of the partition whatever the counter *)
SubtotalLabelByKey(dept_counter_, name) == "TOTAL " \o name

(* DEPT_TOTALS.get(dept_counter, f'TOTAL {name}') *)
SubtotalLabel(dept_counter_, name) ==
    IF dept_counter_ \in 1..Len(DEPT_TOTALS) THEN DEPT_TOTALS[dept_counter_]
    ELSE "TOTAL " \o name

IND_PROD == {1, 2}
IND_QA == 3..10
IND_WAREHOUSE == {11, 12}
(* a bucket that also takes the subtotal of counter value 13 *)
DIRECT_PROD_From13 == {13, 14, 15}
DIRECT_PROD == {14, 15}

(* Grouping keys in ascending string order (code-point order of Python str);
   the empty string sorts before every other. *)
KeyOrder ==
    <<"", "A", "B", "C", "D", "E", "F", "G", "H", "I", "J", "K", "L", "M", "N",
      "Not in dbase", "O", "P", "Q", "R", "S", "T", "U", "V">>

Rank(key) == CHOOSE i \in 1..Len(KeyOrder) : KeyOrder[i] = key

(* Columns of the explored tables of the report engine, by position. *)
InputCols == 0..8

(***************************************************************************)
(* Bounds of the explored inputs.                                          *)
(***************************************************************************)
MaxGroups == 17
MaxGroupSize == 2
MaxSeed == 2

VARIABLES
    df,                   \* self.df on entry of insert_subtotals: sequence of rows
    dtype,                \* dtype of each column of df
    grouped,              \* group names still to be visited by the for loop
    result_dfs,           \* rows appended to result_dfs so far
    dept_counter,
    ind_prod_groups, ind_qa_groups, ind_warehouse_groups, direct_prod_groups,
    all_employee_rows,
    final_df,             \* self.df after insert_subtotals
    pc

VARIABLES
    paste_df,             \* payroll table of BDOConverter: sequence of rows
    paste_columns,        \* paste_df.columns: the label of each column
    dbase,                \* reference table: sequence of rows
    net_pay_col,
    db_idx,               \* position of the loop over dbase.iterrows()
    account_lookup, name_lookup,
    row_idx,              \* position of the loop over paste_df.iterrows()
    bank_data, cash_data,
    skipped_rows, bank_count, cash_count,
    processed_emp_ids,
    skipped_details,
    outcome,              \* what convert() raised or returned
    cpc

VARIABLES
    raw_df,               \* the table PayrollProcessor was constructed with
    self_df,              \* self.df of PayrollProcessor: sequence of rows
    self_columns,         \* self.df.columns: the label of each column
    ppc,                  \* the step of process() to run next
    perror,               \* the exception process() raised, "" when none
    run,                  \* 1 on the raw table, 2 on the table the first run enriched
    first_report          \* what the first run of process() returned

pvars == <<raw_df, self_df, self_columns, ppc, perror, run, first_report>>

(* PayrollProcessor.process is not running *)
ProcIdle ==
    /\ raw_df = <<>>
    /\ self_df = <<>>
    /\ self_columns = <<>>
    /\ ppc = "idle"
    /\ perror = ""
    /\ run = 0
    /\ first_report = <<>>

cvars == <<paste_df, paste_columns, dbase, net_pay_col, db_idx, account_lookup, name_lookup, row_idx,
           bank_data, cash_data, skipped_rows, bank_count, cash_count,
           processed_emp_ids, skipped_details, outcome, cpc>>

rvars == <<df, dtype, grouped, result_dfs, dept_counter, ind_prod_groups,
           ind_qa_groups, ind_warehouse_groups, direct_prod_groups,
           all_employee_rows, final_df, pc>>

vars == <<rvars, cvars, pvars>>

(* Columns of the table handed to insert_subtotals, by position. *)
Cols == IF df = <<>> THEN InputCols ELSE DOMAIN df[1]
NumericCols == {c \in Cols : c >= 7}

BlankRow == [c \in Cols |-> Blank]

(***************************************************************************)
(* pandas helpers                                                          *)
(***************************************************************************)
KeyOf(row) == row[0]

(* rows of the table whose grouping key is name, in table order *)
GroupRows(table, name) == SelectSeq(table, LAMBDA r : KeyOf(r) = name)

RECURSIVE SortedKeys(_, _)
SortedKeys(table, i) ==
    IF i > Len(KeyOrder) THEN <<>>
    ELSE (IF \E n \in 1..Len(table) : KeyOf(table[n]) = StrC(KeyOrder[i])
          THEN <<StrC(KeyOrder[i])>> ELSE <<>>) \o SortedKeys(table, i + 1)

(* groupby(col0, dropna=False): names ascending, the NaN group last *)
groupby(table) ==
    SortedKeys(table, 1) \o
    (IF \E n \in 1..Len(table) : isna(KeyOf(table[n])) THEN <<NaN>> ELSE <<>>)

RECURSIVE SumCells(_, _)
SumCells(rows, col) ==
    IF rows = <<>> THEN 0
    ELSE (IF IsNum(Head(rows)[col]) THEN Head(rows)[col][2] ELSE 0)
         + SumCells(Tail(rows), col)

(* Series.sum() of a numeric column: NaN cells are skipped *)
ColSum(rows, col, dt) ==
    IF dt = "int64" THEN IntC(SumCells(rows, col)) ELSE FloatC(SumCells(rows, col))

(* a test that lets a column of any dtype be summed *)
AnyDtypeNumeric(dt) == dt \in {"int64", "float64", "object"}

(* self.df[col].dtype in ['int64', 'float64'] *)
IsNumericDtype(dt) == dt \in {"int64", "float64"}

(***************************************************************************)
(* PayrollProcessor.insert_subtotals, one loop iteration at a time          *)
(***************************************************************************)

(* a subtotal that sums each numeric column over the whole table *)
SubtotalRowWholeTable(name, group, counter, dt) ==
    [c \in Cols |->
        IF c = 0 THEN name
        ELSE IF c = 1 THEN IntC(Len(group))
        ELSE IF c = 2 THEN StrC(SubtotalLabel(counter, name[2]))
        ELSE IF c >= 7 /\ IsNumericDtype(dt[c]) THEN ColSum(df, c, dt[c])
        ELSE Blank]

(* subtotal_row of one group (lines 219-230) *)
SubtotalRow(name, group, counter, dt) ==
    [c \in Cols |->
        IF c = 0 THEN name
        ELSE IF c = 1 THEN IntC(Len(group))
        ELSE IF c = 2 THEN StrC(SubtotalLabel(counter, name[2]))
        ELSE IF c >= 7 /\ IsNumericDtype(dt[c]) THEN ColSum(group, c, dt[c])
        ELSE Blank]

RECURSIVE SumSafeFloat(_, _)
SumSafeFloat(rows, col) ==
    IF rows = <<>> THEN 0
    ELSE safe_float(Head(rows)[col]) + SumSafeFloat(Tail(rows), col)

(* a rollup row that also shows the sums that are zero *)
create_group_total_with_zeros(group_rows, label) ==
    IF group_rows = <<>> THEN BlankRow
    ELSE [c \in Cols |->
            IF c = 2 THEN StrC(label)
            ELSE IF c = 1 \/ c >= 7 THEN FloatC(SumSafeFloat(group_rows, c))
            ELSE Blank]

(* _create_group_total(group_rows, label) *)
create_group_total(group_rows, label) ==
    IF group_rows = <<>> THEN BlankRow
    ELSE [c \in Cols |->
            IF c >= 1 /\ SumSafeFloat(group_rows, c) # 0
            THEN FloatC(SumSafeFloat(group_rows, c))
            ELSE IF c = 2 THEN StrC(label)
            ELSE Blank]

(* the bucket lists after the subtotal of this counter value is tracked *)
TrackBucket(bucket, members, counter, subtotal_row) ==
    IF counter \in members THEN Append(bucket, subtotal_row) ELSE bucket

(* checkpoints that emit the rollup without the spacer row *)
CheckpointRowsNoSpacer(counter, prod, qa, warehouse, direct) ==
    IF counter = 2 THEN <<create_group_total(prod, "IND PROD TOTAL")>>
    ELSE IF counter = 10 THEN <<create_group_total(qa, "IND QA TOTAL")>>
    ELSE IF counter = 12 THEN <<create_group_total(warehouse, "IND WAREHOUSE TOTAL")>>
    ELSE IF counter = 15 THEN <<create_group_total(direct, "DIRECT PROD TOTAL")>>
    ELSE <<>>

(* the rows added after the subtotal at the four checkpoints (lines 247-273) *)
CheckpointRows(counter, prod, qa, warehouse, direct) ==
    IF counter = 2 THEN <<create_group_total(prod, "IND PROD TOTAL"), BlankRow>>
    ELSE IF counter = 10 THEN <<create_group_total(qa, "IND QA TOTAL"), BlankRow>>
    ELSE IF counter = 12
         THEN <<create_group_total(warehouse, "IND WAREHOUSE TOTAL"), BlankRow>>
    ELSE IF counter = 15
         THEN <<create_group_total(direct, "DIRECT PROD TOTAL"), BlankRow>>
    ELSE <<>>

(* the subtotal row stored with the employee rows *)
AppendEmployeesAndSubtotal(employee_rows, group, subtotal_row) ==
    employee_rows \o group \o <<subtotal_row>>

(* all_employee_rows.append(group) *)
AppendEmployees(employee_rows, group, subtotal_row) == employee_rows \o group

(* a grand total whose count leaves out the records of the last partition *)
GrandTotalRowWithoutLastGroup(all_employees_df, dt) ==
    [c \in Cols |->
        IF c = 2 THEN StrC("GRAND TOTAL DAILY")
        ELSE IF c = 1
             THEN IntC(Cardinality({n \in 1..Len(all_employees_df) :
                     all_employees_df[n][0] # all_employees_df[Len(all_employees_df)][0]}))
        ELSE IF c >= 7 /\ IsNumericDtype(dt[c]) THEN ColSum(all_employees_df, c, dt[c])
        ELSE Blank]

(* grand_total_row (lines 284-301) *)
GrandTotalRow(all_employees_df, dt) ==
    [c \in Cols |->
        IF c = 2 THEN StrC("GRAND TOTAL DAILY")
        ELSE IF c = 1 THEN IntC(Len(all_employees_df))
        ELSE IF c >= 7 /\ IsNumericDtype(dt[c]) THEN ColSum(all_employees_df, c, dt[c])
        ELSE Blank]

(* ------------------------------------------------------------------------ *)
(* The tables handed to insert_subtotals: ng groups with consecutive keys   *)
(* of KeyOrder starting at position offset+1, sorted by key as sort_data    *)
(* leaves them, rows with a missing key last.                               *)
(* ------------------------------------------------------------------------ *)
GroupSize(k, pattern) == IF pattern = 0 THEN 1 + (k % MaxGroupSize) ELSE pattern

Pay(k, j, seed) == ((seed * k + j) % 4) - 1

EmployeeRow(key, k, j, seed, dt8) ==
    [c \in InputCols |->
        IF c = 0 THEN key
        ELSE IF c = 1 THEN IntC(10 * k + j)
        ELSE IF c = 2 THEN StrC("ACCT")
        ELSE IF c = 7 THEN IntC(Pay(k, j, seed))
        ELSE IF c = 8
             THEN (IF dt8 = "object" THEN StrC("n/a")
                   ELSE IF dt8 = "mixed" /\ k % 2 = 0 THEN StrC("n/a")
                   ELSE IF j > 1 THEN NaN ELSE FloatC((k + seed) % 3))
        ELSE StrC("x")]

RECURSIVE GroupTable(_, _, _, _, _)
GroupTable(key, k, j, seed, dt8) ==
    IF j = 0 THEN <<>>
    ELSE Append(GroupTable(key, k, j - 1, seed, dt8), EmployeeRow(key, k, j, seed, dt8))

RECURSIVE PayrollTable(_, _, _, _, _)
PayrollTable(ng, pattern, seed, offset, dt8) ==
    IF ng = 0 THEN <<>>
    ELSE PayrollTable(ng - 1, pattern, seed, offset, dt8)
         \o GroupTable(StrC(KeyOrder[ng + offset]), ng, GroupSize(ng, pattern), seed, dt8)

(* net_pay_col = None, an empty dict, dict[k] = v *)
NoCol == -1
EmptyDict == [k \in {} |-> ""]
Put(dict, k, v) == [x \in (DOMAIN dict) \cup {k} |-> IF x = k THEN v ELSE dict[x]]

(* BDOConverter is not running *)
BDOIdle ==
    /\ paste_df = <<>>
    /\ paste_columns = <<>>
    /\ dbase = <<>>
    /\ net_pay_col = NoCol
    /\ db_idx = 1
    /\ account_lookup = EmptyDict
    /\ name_lookup = EmptyDict
    /\ row_idx = 1
    /\ bank_data = <<>>
    /\ cash_data = <<>>
    /\ skipped_rows = 0
    /\ bank_count = 0
    /\ cash_count = 0
    /\ processed_emp_ids = {}
    /\ skipped_details = [no_emp_id |-> 0, zero_pay |-> 0, keyword |-> 0, duplicate |-> 0]
    /\ outcome = [kind |-> "idle"]
    /\ cpc = "idle"

Init ==
    /\ \E ng \in 0..MaxGroups, pattern \in 0..MaxGroupSize, seed \in 0..MaxSeed,
          offset \in 0..2, nanrow \in BOOLEAN, dt8 \in {"float64", "object", "mixed"} :
          /\ df = PayrollTable(ng, pattern, seed, offset, dt8)
                  \o (IF nanrow THEN <<EmployeeRow(NaN, 0, 1, seed, dt8)>> ELSE <<>>)
          /\ dtype = [c \in InputCols |-> IF c = 7 THEN "int64"
                                     ELSE IF c = 8
                                          THEN (IF dt8 = "mixed"
                                                THEN (IF \E n \in 1..Len(df) : IsStr(df[n][8])
                                                      THEN "object" ELSE "float64")
                                                ELSE dt8)
                                     ELSE IF c = 1 THEN "int64" ELSE "object"]
    /\ grouped = groupby(df)
    /\ result_dfs = <<>>
    /\ dept_counter = 1
    /\ ind_prod_groups = <<>>
    /\ ind_qa_groups = <<>>
    /\ ind_warehouse_groups = <<>>
    /\ direct_prod_groups = <<>>
    /\ all_employee_rows = <<>>
    /\ final_df = <<>>
    /\ pc = "loop"
    /\ BDOIdle
    /\ ProcIdle

(* for name, group in grouped: if pd.isna(name): continue *)
SkipGroup ==
    /\ pc = "loop"
    /\ grouped # <<>>
    /\ isna(Head(grouped))
    /\ grouped' = Tail(grouped)
    /\ UNCHANGED <<df, dtype, result_dfs, dept_counter, ind_prod_groups, ind_qa_groups,
                   ind_warehouse_groups, direct_prod_groups, all_employee_rows,
                   final_df, pc>>
    /\ UNCHANGED <<cvars, pvars>>

(* one iteration of the loop body, lines 210-275 *)
VisitGroup ==
    /\ pc = "loop"
    /\ grouped # <<>>
    /\ ~isna(Head(grouped))
    /\ LET name == Head(grouped)
           group == GroupRows(df, name)
           subtotal_row == SubtotalRow(name, group, dept_counter, dtype)
       IN /\ all_employee_rows' = AppendEmployees(all_employee_rows, group, subtotal_row)
          /\ ind_prod_groups' =
                TrackBucket(ind_prod_groups, IND_PROD, dept_counter, subtotal_row)
          /\ ind_qa_groups' =
                TrackBucket(ind_qa_groups, IND_QA, dept_counter, subtotal_row)
          /\ ind_warehouse_groups' =
                TrackBucket(ind_warehouse_groups, IND_WAREHOUSE, dept_counter, subtotal_row)
          /\ direct_prod_groups' =
                TrackBucket(direct_prod_groups, DIRECT_PROD, dept_counter, subtotal_row)
          /\ result_dfs' = result_dfs \o group \o <<subtotal_row>>
                \o CheckpointRows(dept_counter, ind_prod_groups', ind_qa_groups',
                                  ind_warehouse_groups', direct_prod_groups')
    /\ dept_counter' = dept_counter + 1
    /\ grouped' = Tail(grouped)
    /\ UNCHANGED <<df, dtype, final_df, pc>>
    /\ UNCHANGED <<cvars, pvars>>

(* lines 279-305: concat, grand total row appended *)
GrandTotal ==
    /\ pc = "loop"
    /\ grouped = <<>>
    /\ result_dfs # <<>>
    /\ final_df' = Append(result_dfs, GrandTotalRow(all_employee_rows, dtype))
    /\ pc' = "done"
    /\ UNCHANGED <<df, dtype, grouped, result_dfs, dept_counter, ind_prod_groups,
                   ind_qa_groups, ind_warehouse_groups, direct_prod_groups,
                   all_employee_rows>>
    /\ UNCHANGED <<cvars, pvars>>

(* pd.concat of an empty list raises ValueError, re-raised at line 343 *)
ConcatError ==
    /\ pc = "loop"
    /\ grouped = <<>>
    /\ result_dfs = <<>>
    /\ pc' = "error"
    /\ UNCHANGED <<df, dtype, grouped, result_dfs, dept_counter, ind_prod_groups,
                   ind_qa_groups, ind_warehouse_groups, direct_prod_groups,
                   all_employee_rows, final_df>>
    /\ UNCHANGED <<cvars, pvars>>

(***************************************************************************)
(* Properties of the report engine.  The definitions below describe the    *)
(* report from the input table alone.                                      *)
(***************************************************************************)
Checkpoints == {2, 10, 12, 15}

DeclaredBucket(cp) ==
    IF cp = 2 THEN {1, 2}
    ELSE IF cp = 10 THEN {3, 4, 5, 6, 7, 8, 9, 10}
    ELSE IF cp = 12 THEN {11, 12}
    ELSE {14, 15}

RollupLabel(cp) ==
    IF cp = 2 THEN "IND PROD TOTAL"
    ELSE IF cp = 10 THEN "IND QA TOTAL"
    ELSE IF cp = 12 THEN "IND WAREHOUSE TOTAL"
    ELSE "DIRECT PROD TOTAL"

NumOrZero(cell) == IF IsNum(cell) THEN cell[2] ELSE 0

(* the employee records of the input whose grouping key is not missing *)
EmployeeRecords == SelectSeq(df, LAMBDA r : ~isna(KeyOf(r)))

PresentKeys == {KeyOf(df[n]) : n \in {m \in 1..Len(df) : ~isna(KeyOf(df[m]))}}

Members(key) == {n \in 1..Len(df) : KeyOf(df[n]) = key}

RECURSIVE FieldTotal(_, _, _)
FieldTotal(table, idx, c) ==
    IF idx = {} THEN 0
    ELSE LET n == CHOOSE m \in idx : TRUE
         IN NumOrZero(table[n][c]) + FieldTotal(table, idx \ {n}, c)

(* the keys present in the input, in ascending order *)
RECURSIVE AscendingKeys(_, _)
AscendingKeys(present, i) ==
    IF i > Len(KeyOrder) THEN <<>>
    ELSE (IF StrC(KeyOrder[i]) \in present THEN <<StrC(KeyOrder[i])>> ELSE <<>>)
         \o AscendingKeys(present, i + 1)

RECURSIVE PartSizes(_, _)
PartSizes(keys, k) ==
    IF k = 0 THEN <<>>
    ELSE Append(PartSizes(keys, k - 1), Cardinality(Members(keys[k])))

(* position of the SubtotalRow of each partition: the records and subtotals
   of the partitions before it, two rows for every checkpoint passed *)
RECURSIVE SubtotalPositions(_, _)
SubtotalPositions(sizes, k) ==
    IF k = 0 THEN <<>>
    ELSE LET before == SubtotalPositions(sizes, k - 1)
         IN Append(before,
                   (IF k = 1 THEN 0 ELSE before[k - 1])
                   + (IF (k - 1) \in Checkpoints THEN 2 ELSE 0) + sizes[k] + 1)

(* The layout of the report, from the input table: key[k] is the key of the
   k-th partition in ascending key order, size[k] its number of records and
   pos[k] the position in the report of its SubtotalRow. *)
Layout ==
    LET key == AscendingKeys(PresentKeys, 1)
        size == PartSizes(key, Len(key))
    IN [key |-> key, size |-> size, pos |-> SubtotalPositions(size, Len(size))]

Visited == dept_counter - 1

(* C1: the GrandTotalRow holds the number of employee records of the visited
   partitions and, for every numeric field at position >= 7, the sum of the
   field over those records only *)
C1_GrandTotalOverEmployeesOnly ==
    pc = "done" =>
        LET g == final_df[Len(final_df)]
            emp == EmployeeRecords
        IN /\ g[2] = StrC("GRAND TOTAL DAILY")
           /\ g[1] = IntC(Len(emp))
           /\ \A c \in NumericCols :
                IsNumericDtype(dtype[c]) =>
                    /\ IsNum(g[c])
                    /\ g[c][2] = FieldTotal(emp, 1..Len(emp), c)

C1_Witness ==
    /\ pc = "done"
    /\ Visited >= 3
    /\ Len(EmployeeRecords) < Len(df)
    /\ dtype[8] = "float64"
    /\ final_df[Len(final_df)][7][2] > 0
    /\ final_df[Len(final_df)][8][2] > 0

(* C2: the SubtotalRow of every visited partition follows the partition's
   employee records and carries its key, its number of records and the sums
   of every numeric field over exactly the records of that partition *)
C2_SubtotalOfPartition ==
    LET L == Layout
    IN \A k \in 1..Visited :
        LET key == L.key[k]
            sub == result_dfs[L.pos[k]]
            part == GroupRows(df, key)
        IN /\ sub[0] = key
           /\ sub[1] = IntC(Cardinality(Members(key)))
           /\ \A j \in 1..Len(part) : result_dfs[L.pos[k] - Len(part) + j - 1] = part[j]
           /\ \A c \in NumericCols :
                IsNumericDtype(dtype[c]) =>
                    /\ IsNum(sub[c])
                    /\ sub[c][2] = FieldTotal(df, Members(key), c)

C2_Witness ==
    /\ Visited >= 4
    /\ Layout.size[1] # Layout.size[2]
    /\ result_dfs[Layout.pos[3]][7][2] # 0
    /\ result_dfs[Layout.pos[3]][7][2] # FieldTotal(df, 1..Len(df), 7)

(* the SubtotalRows emitted so far whose counter value lies in bucket *)
RECURSIVE SubtotalsOf(_, _, _)
SubtotalsOf(bucket, k, pos) ==
    IF k = 0 THEN <<>>
    ELSE SubtotalsOf(bucket, k - 1, pos)
         \o (IF k \in bucket THEN <<result_dfs[pos[k]]>> ELSE <<>>)

(* C3: every RollupTotal is the field-by-field sum of the SubtotalRows of its
   declared bucket (a zero sum shown blank), the buckets hold the subtotals
   by counter value A={1,2}, B={3..10}, C={11,12}, D={14,15}, and the
   subtotals of counter 13 and 16 are in none *)
C3_RollupOfDeclaredBucket ==
    LET pos == Layout.pos
    IN
    /\ ind_prod_groups = SubtotalsOf(DeclaredBucket(2), Visited, pos)
    /\ ind_qa_groups = SubtotalsOf(DeclaredBucket(10), Visited, pos)
    /\ ind_warehouse_groups = SubtotalsOf(DeclaredBucket(12), Visited, pos)
    /\ direct_prod_groups = SubtotalsOf(DeclaredBucket(15), Visited, pos)
    /\ \A cp \in Checkpoints :
        cp <= Visited =>
            LET r == result_dfs[pos[cp] + 1]
                idx == {pos[k] : k \in DeclaredBucket(cp)}
            IN /\ r[0] = Blank
               /\ r[2] = StrC(RollupLabel(cp))
               /\ \A c \in Cols \ {0, 2} :
                    LET total == FieldTotal(result_dfs, idx, c)
                    IN r[c] = IF total # 0 THEN FloatC(total) ELSE Blank

C3_Witness ==
    /\ pc = "done"
    /\ Visited >= 16
    /\ Layout.key[1] # StrC("A")
    /\ \A cp \in Checkpoints : IsNum(result_dfs[Layout.pos[cp] + 1][7])
    /\ result_dfs[Layout.pos[13]][7][2] # 0
    /\ result_dfs[Layout.pos[16]][7][2] # 0

(* the kind of a report row, read off the row itself *)
RowKind(r) ==
    IF r = BlankRow THEN "blank"
    ELSE IF r[2] = StrC("GRAND TOTAL DAILY") THEN "grand"
    ELSE IF r[0] = Blank /\ r[2] \in {StrC(RollupLabel(cp)) : cp \in Checkpoints}
         THEN "rollup"
    ELSE IF IsStr(r[2]) /\ Len(r[2][2]) >= 6 /\ SubSeq(r[2][2], 1, 6) = "TOTAL "
         THEN "sub"
    ELSE "emp"

RECURSIVE ExpectedKinds(_, _)
ExpectedKinds(k, size) ==
    IF k = 0 THEN <<>>
    ELSE ExpectedKinds(k - 1, size)
         \o [j \in 1..size[k] |-> "emp"] \o <<"sub">>
         \o (IF k \in Checkpoints THEN <<"rollup", "blank">> ELSE <<>>)

ExampleKinds ==
    <<"emp", "emp", "sub", "emp", "emp", "sub", "rollup", "blank",
      "emp", "emp", "sub", "grand">>

IsExampleTable ==
    /\ Len(df) = 6
    /\ \A n \in 1..6 : KeyOf(df[n]) = StrC(<<"A", "B", "C">>[(n + 1) \div 2])

(* C4: the report is, partition by partition, the employee records then the
   SubtotalRow, one RollupTotal with its label and one blank row right after
   the subtotals of counter 2, 10, 12 and 15, and the GrandTotalRow last;
   three groups A, B, C of two employees give the 12 rows of the example *)
C4_ReportOrder ==
    pc = "done" =>
      LET L == Layout
      IN
        /\ [n \in 1..Len(final_df) |-> RowKind(final_df[n])]
              = Append(ExpectedKinds(Visited, L.size), "grand")
        /\ SelectSeq(final_df, LAMBDA r : RowKind(r) = "emp") = EmployeeRecords
        /\ \A cp \in Checkpoints :
              cp <= Visited => final_df[L.pos[cp] + 1][2] = StrC(RollupLabel(cp))
        /\ \A k \in 1..Visited : final_df[L.pos[k]][0] = L.key[k]
        /\ IsExampleTable =>
              /\ Len(final_df) = 12
              /\ [n \in 1..12 |-> RowKind(final_df[n])] = ExampleKinds
              /\ final_df[7][2] = StrC("IND PROD TOTAL")
              /\ \A n \in 1..2 : /\ final_df[n] = df[n]
                                 /\ final_df[n + 3] = df[n + 2]
                                 /\ final_df[n + 8] = df[n + 4]

C4_Witness ==
    /\ pc = "done"
    /\ IsExampleTable
    /\ Len(final_df) = 12

C4_WitnessAllCheckpoints ==
    /\ pc = "done"
    /\ Visited >= 16

(***************************************************************************)
(* BDOConverter.convert                                                    *)
(***************************************************************************)
RowLen(row) == Cardinality(DOMAIN row)


(* pd.to_numeric(cell, errors='coerce') > 0 *)
IsPositive(c) == safe_float(c) > 0

PositiveRows(table, col) == {n \in 1..Len(table) : IsPositive(table[n][col])}

RECURSIVE SumPositive(_, _, _)
SumPositive(table, col, n) ==
    IF n = 0 THEN 0
    ELSE SumPositive(table, col, n - 1)
         + (IF IsPositive(table[n][col]) THEN safe_float(table[n][col]) ELSE 0)

(* the range test with its bounds included *)
MeanInRangeInclusive(table, col) ==
    LET cnt == Cardinality(PositiveRows(table, col))
        total == SumPositive(table, col, Len(table))
    IN 1000 * cnt <= total /\ total <= 200000 * cnt

(* 1000 < non_zero_values.mean() < 200000 *)
MeanInRange(table, col) ==
    LET cnt == Cardinality(PositiveRows(table, col))
        total == SumPositive(table, col, Len(table))
    IN 1000 * cnt < total /\ total < 200000 * cnt

(* the listed columns tried from the right *)
TRY_COLS_Descending == <<42, 41, 40, 35, 34, 33, 32, 31>>

TRY_COLS == <<33, 34, 35, 32, 31, 40, 41, 42>>

(* lines 422-435: the first listed column with a plausible mean *)
RECURSIVE TryColumns(_, _, _)
TryColumns(table, width, i) ==
    IF i > Len(TRY_COLS) THEN NoCol
    ELSE IF /\ TRY_COLS[i] < width
            /\ Cardinality(PositiveRows(table, TRY_COLS[i])) > 0
            /\ MeanInRange(table, TRY_COLS[i])
         THEN TRY_COLS[i]
    ELSE TryColumns(table, width, i + 1)

(* lines 437-452: from the last column down to, not including, max(0, width-30) *)
RECURSIVE ScanFromRight(_, _, _)
ScanFromRight(table, col_idx, stop) ==
    IF col_idx <= stop THEN NoCol
    ELSE IF /\ Cardinality(PositiveRows(table, col_idx)) > 10
            /\ MeanInRange(table, col_idx)
         THEN col_idx
    ELSE ScanFromRight(table, col_idx - 1, stop)

(* lines 454-465: the first column named like net pay *)
RECURSIVE ScanByName(_, _, _, _)
ScanByName(table, columns, col_idx, width) ==
    IF col_idx >= width THEN NoCol
    ELSE IF /\ IsStr(columns[col_idx])
            /\ (Contains(lower(columns[col_idx][2]), "net")
                \/ Contains(lower(columns[col_idx][2]), "pay"))
            /\ Cardinality(PositiveRows(table, col_idx)) > 10
         THEN col_idx
    ELSE ScanByName(table, columns, col_idx + 1, width)

FindNetPayCol(table, columns, width) ==
    IF TryColumns(table, width, 1) # NoCol THEN TryColumns(table, width, 1)
    ELSE IF ScanFromRight(table, width - 1, IF width - 30 > 0 THEN width - 30 ELSE 0) # NoCol
         THEN ScanFromRight(table, width - 1, IF width - 30 > 0 THEN width - 30 ELSE 0)
    ELSE ScanByName(table, columns, 0, width)

(* ---- reference index, lines 479-530 ---- *)

(* emp_id of a reference row (line 486) *)
DbEmpId(row) == IF isna(row[0]) THEN "" ELSE strip(PyStr(row[0]))

(* account_no of lines 497-509; a float cell is integral here *)
AccountNo(acct_val) ==
    IF IsStr(acct_val) THEN FilterDigits(acct_val[2]) ELSE IntToStr(acct_val[2])

(* account_no and len(account_no) >= 10 *)
ValidAccount(account_no) == Len(account_no) >= 10

AccountLookupAfter(lookup, row) ==
    IF /\ IsNumericToken(DbEmpId(row))
       /\ RowLen(row) > 3
       /\ ~isna(row[3])
       /\ ValidAccount(AccountNo(row[3]))
    THEN Put(lookup, BeforeDot(DbEmpId(row)), AccountNo(row[3]))
    ELSE lookup

NameLookupAfter(lookup, row) ==
    IF /\ IsNumericToken(DbEmpId(row))
       /\ RowLen(row) > 1
       /\ ~isna(row[1])
    THEN Put(lookup, BeforeDot(DbEmpId(row)),
             IF strip(PyStr(row[1])) # "" /\ strip(PyStr(row[1])) # "nan"
             THEN strip(PyStr(row[1]))
             ELSE "Employee " \o BeforeDot(DbEmpId(row)))
    ELSE lookup

(* ---- payroll rows, lines 545-660 ---- *)

(* the identifier read from column 1 (lines 557-560), "" when there is none *)
IdFromColumn1(row) ==
    IF RowLen(row) > 1 /\ IsNumericToken(strip(PyStr(row[1])))
    THEN BeforeDot(strip(PyStr(row[1])))
    ELSE ""

OTHER_ID_COLS == <<0, 2, 3>>

(* lines 563-569: the first of columns 0, 2, 3 holding a token of length >= 4 *)
RECURSIVE IdFromOtherColumns(_, _)
IdFromOtherColumns(row, i) ==
    IF i > Len(OTHER_ID_COLS) THEN ""
    ELSE IF /\ OTHER_ID_COLS[i] < RowLen(row)
            /\ IsNumericToken(strip(PyStr(row[OTHER_ID_COLS[i]])))
            /\ Len(strip(PyStr(row[OTHER_ID_COLS[i]]))) >= 4
         THEN BeforeDot(strip(PyStr(row[OTHER_ID_COLS[i]])))
    ELSE IdFromOtherColumns(row, i + 1)

(* emp_id of a payroll row; "" stands for None *)
ResolveEmpId(row) ==
    IF IdFromColumn1(row) # "" THEN IdFromColumn1(row) ELSE IdFromOtherColumns(row, 1)

(* ' '.join(str(x).upper() for x in row.iloc[:5] if pd.notna(x)) *)
RECURSIVE RowText(_, _)
RowText(row, c) ==
    IF c >= 5 \/ c >= RowLen(row) THEN ""
    ELSE IF isna(row[c]) THEN RowText(row, c + 1)
    ELSE upper(PyStr(row[c])) \o " " \o RowText(row, c + 1)

KEYWORDS == {"TOTAL", "GRAND", "CCR", "CODE", "NAME", "ACCOUNT"}

HasKeyword(row) == \E keyword \in KEYWORDS : Contains(RowText(row, 0), keyword)

(* lines 590-593 *)
NetPay(row, col) == IF col < RowLen(row) THEN safe_float(row[col]) ELSE 0

(* only a negative amount is refused *)
IsZeroPayNegativeOnly(net_pay) == net_pay < 0

(* a non-positive amount is not paid (line 595) *)
IsZeroPay(net_pay) == net_pay <= 0

(* the duplicate test dropped *)
IsDuplicateNever(emp_id, processed) == FALSE

(* emp_id in processed_emp_ids (line 577) *)
IsDuplicate(emp_id, processed) == emp_id \in processed

NAME_COLS == <<3, 4, 5>>

RECURSIVE NameParts(_, _)
NameParts(row, i) ==
    IF i > Len(NAME_COLS) THEN <<>>
    ELSE (IF /\ NAME_COLS[i] < RowLen(row)
             /\ strip(PyStr(row[NAME_COLS[i]])) # ""
             /\ strip(PyStr(row[NAME_COLS[i]])) # "nan"
          THEN <<strip(PyStr(row[NAME_COLS[i]]))>> ELSE <<>>)
         \o NameParts(row, i + 1)

(* lines 602-622 *)
EmployeeName(row, emp_id, names) ==
    IF emp_id \in DOMAIN names THEN names[emp_id]
    ELSE LET name_parts == NameParts(row, 1)
         IN IF Len(name_parts) >= 2
            THEN name_parts[1] \o ", " \o name_parts[2]
                 \o (IF Len(name_parts) > 2
                     THEN " " \o CharAt(name_parts[3], 1) \o "." ELSE "")
            ELSE IF Len(name_parts) >= 1 THEN name_parts[1]
            ELSE "Employee " \o emp_id

(* the account without the "00" prefix *)
BankAccountNoPrefix(account_no) ==
    IF Len(FilterDigits(account_no)) < 10
    THEN zfill(FilterDigits(account_no), 10)
    ELSE FilterDigits(account_no)

(* account_with_prefix, lines 628-635 *)
BankAccount(account_no) ==
    "00" \o (IF Len(FilterDigits(account_no)) < 10
             THEN zfill(FilterDigits(account_no), 10)
             ELSE FilterDigits(account_no))

(* account_lookup.get(emp_id) is a non-empty account (lines 601, 625) *)
HasAccount(emp_id, accounts) == emp_id \in DOMAIN accounts

(* the identifier is not recorded *)
MarkProcessedForgets(processed, emp_id) == processed

(* processed_emp_ids.add(emp_id) (lines 644, 657) *)
MarkProcessed(processed, emp_id) == processed \cup {emp_id}

(* ---- the explored payroll and reference tables ---- *)
PayCols == 0..33

PRow(c0, c1, c2, c3, c4, c5, pay) ==
    [c \in PayCols |->
        IF c = 0 THEN c0 ELSE IF c = 1 THEN c1 ELSE IF c = 2 THEN c2
        ELSE IF c = 3 THEN c3 ELSE IF c = 4 THEN c4 ELSE IF c = 5 THEN c5
        ELSE IF c = 33 THEN pay ELSE NaN]

PayrollRows ==
    { PRow(StrC("IND2001"), IntC(1001), StrC("00012345678"),
           StrC("Cruz"), StrC("Ana"), StrC("Maria"), IntC(20000)),
      PRow(StrC("IND2005"), IntC(1002), NaN,
           StrC("Reyes"), StrC("Ben"), NaN, FloatC(15000)),
      PRow(StrC("IND2001"), FloatC(1001), NaN,
           StrC("Cruz"), StrC("Ana"), NaN, IntC(0)),
      PRow(StrC("IND2001"), IntC(2), StrC("Total IND2001"),
           Blank, Blank, Blank, IntC(35000)),
      PRow(NaN, NaN, NaN, StrC("n/a"), NaN, NaN, NaN),
      PRow(StrC("D2001"), StrC("new"), StrC("1004"),
           StrC("Santos"), StrC("Lito"), StrC("dela"), StrC("12000")),
      PRow(StrC("IND2005"), NaN, FloatC(55),
           StrC("Lim"), StrC("Cy"), NaN, IntC(9000)) }

DRow(emp, name, acct, ccr) ==
    [c \in 0..5 |->
        IF c = 0 THEN emp ELSE IF c = 1 THEN name ELSE IF c = 2 THEN StrC("CC")
        ELSE IF c = 3 THEN acct ELSE IF c = 5 THEN ccr ELSE NaN]

DbaseChoices ==
    { <<DRow(IntC(1001), StrC("Cruz, Ana M."), StrC("00012345678"), StrC("A")),
        DRow(IntC(1002), StrC("Reyes, Ben"), StrC("55"), StrC("B"))>>,
      <<DRow(FloatC(1001), NaN, IntC(1234567890), StrC("A")),
        DRow(StrC("EMP ID"), StrC("NAME"), StrC("ACCOUNT NO"), StrC("CCR")),
        DRow(IntC(1004), StrC("  "), StrC("1234-5678-90"), StrC("N"))>>,
      <<DRow(IntC(1001), StrC("Cruz, Ana M."), StrC("00012345678"), StrC("A")),
        DRow(IntC(1001), StrC("Cruz-Lim, Ana M."), NaN, StrC("B")),
        DRow(IntC(1002), StrC("Reyes, Ben"), IntC(-123456789), StrC("B"))>>,
      <<>> }

MaxRows == 3

RECURSIVE Tables(_)
Tables(n) ==
    IF n = 0 THEN {<<>>}
    ELSE Tables(n - 1)
         \cup {Append(t, r) : t \in {u \in Tables(n - 1) : Len(u) = n - 1}, r \in PayrollRows}

(* header=None: the columns are named by their position *)
ColumnNames == [c \in PayCols |-> IntC(c)]

(* names in ascending str order, for sort_values('Name') *)
NameOrder ==
    <<"Cruz, Ana", "Cruz, Ana M.", "Cruz-Lim, Ana M.", "Employee 1001", "Employee 1002",
      "Employee 1004", "Lim, Cy", "Reyes, Ben", "Santos, Lito d.">>

NameRank(name) == CHOOSE i \in 1..Len(NameOrder) : NameOrder[i] = name

RECURSIVE Perms(_)
Perms(S) ==
    IF S = {} THEN {<<>>}
    ELSE UNION {{<<x>> \o p : p \in Perms(S \ {x})} : x \in S}

(* the orders sort_values('Name') can return: ascending names, ties in any order *)
SortedByName(records) ==
    {[i \in 1..Len(records) |-> records[p[i]]] :
        p \in {q \in Perms(1..Len(records)) :
                 \A i \in 1..(Len(records) - 1) :
                    NameRank(records[q[i]].Name) <= NameRank(records[q[i + 1]].Name)}}

(* a total that takes the first record only *)
SumNetPayFirstOnly(records) == IF records = <<>> THEN 0 ELSE Head(records).NetPay

RECURSIVE SumNetPay(_)
SumNetPay(records) ==
    IF records = <<>> THEN 0 ELSE Head(records).NetPay + SumNetPay(Tail(records))

RollupIdle ==
    /\ df = <<>>
    /\ dtype = <<>>
    /\ grouped = <<>>
    /\ result_dfs = <<>>
    /\ dept_counter = 1
    /\ ind_prod_groups = <<>>
    /\ ind_qa_groups = <<>>
    /\ ind_warehouse_groups = <<>>
    /\ direct_prod_groups = <<>>
    /\ all_employee_rows = <<>>
    /\ final_df = <<>>
    /\ pc = "idle"

InitBDO ==
    /\ paste_df \in Tables(MaxRows)
    /\ paste_columns = ColumnNames
    /\ dbase \in DbaseChoices
    /\ net_pay_col = NoCol
    /\ db_idx = 1
    /\ account_lookup = EmptyDict
    /\ name_lookup = EmptyDict
    /\ row_idx = 1
    /\ bank_data = <<>>
    /\ cash_data = <<>>
    /\ skipped_rows = 0
    /\ bank_count = 0
    /\ cash_count = 0
    /\ processed_emp_ids = {}
    /\ skipped_details = [no_emp_id |-> 0, zero_pay |-> 0, keyword |-> 0, duplicate |-> 0]
    /\ outcome = [kind |-> "running"]
    /\ cpc = "start"
    /\ RollupIdle
    /\ ProcIdle

(* line 409: self.dbase.iloc[0] of a table without rows raises IndexError *)
DbaseSampleError ==
    /\ cpc = "start"
    /\ Len(dbase) = 0
    /\ outcome' = [kind |-> "IndexError"]
    /\ cpc' = "raised"
    /\ UNCHANGED <<paste_df, paste_columns, dbase, net_pay_col, db_idx, account_lookup, name_lookup,
                   row_idx, bank_data, cash_data, skipped_rows, bank_count, cash_count,
                   processed_emp_ids, skipped_details>>
    /\ UNCHANGED <<rvars, pvars>>

(* lines 417-470, a column was found *)
LocateNetPay ==
    /\ cpc = "start"
    /\ Len(dbase) > 0
    /\ FindNetPayCol(paste_df, paste_columns, RowLen(paste_columns)) # NoCol
    /\ net_pay_col' = FindNetPayCol(paste_df, paste_columns, RowLen(paste_columns))
    /\ cpc' = "index"
    /\ UNCHANGED <<paste_df, paste_columns, dbase, db_idx, account_lookup, name_lookup,
                   row_idx, bank_data, cash_data, skipped_rows, bank_count, cash_count,
                   processed_emp_ids, skipped_details, outcome>>
    /\ UNCHANGED <<rvars, pvars>>

(* lines 467-468: raise ValueError("Could not find Net Pay column...") *)
NetPayNotFound ==
    /\ cpc = "start"
    /\ Len(dbase) > 0
    /\ FindNetPayCol(paste_df, paste_columns, RowLen(paste_columns)) = NoCol
    /\ outcome' = [kind |-> "ColumnNotFound"]
    /\ cpc' = "raised"
    /\ UNCHANGED <<paste_df, paste_columns, dbase, net_pay_col, db_idx, account_lookup, name_lookup,
                   row_idx, bank_data, cash_data, skipped_rows, bank_count, cash_count,
                   processed_emp_ids, skipped_details>>
    /\ UNCHANGED <<rvars, pvars>>

(* one iteration of the loop over the reference rows, lines 479-530 *)
IndexRow ==
    /\ cpc = "index"
    /\ db_idx <= Len(dbase)
    /\ account_lookup' = AccountLookupAfter(account_lookup, dbase[db_idx])
    /\ name_lookup' = NameLookupAfter(name_lookup, dbase[db_idx])
    /\ db_idx' = db_idx + 1
    /\ UNCHANGED <<paste_df, paste_columns, dbase, net_pay_col, row_idx, bank_data, cash_data,
                   skipped_rows, bank_count, cash_count, processed_emp_ids,
                   skipped_details, outcome, cpc>>
    /\ UNCHANGED <<rvars, pvars>>

(* the loop over the reference rows is exhausted, lines 532-543 *)
IndexBuilt ==
    /\ cpc = "index"
    /\ db_idx > Len(dbase)
    /\ cpc' = "rows"
    /\ UNCHANGED <<paste_df, paste_columns, dbase, net_pay_col, db_idx, account_lookup, name_lookup,
                   row_idx, bank_data, cash_data, skipped_rows, bank_count, cash_count,
                   processed_emp_ids, skipped_details, outcome>>
    /\ UNCHANGED <<rvars, pvars>>

AtRow == cpc = "rows" /\ row_idx <= Len(paste_df)

(* a skip that is counted under its reason only *)
SkipUncounted(reason) ==
    /\ skipped_details' = [skipped_details EXCEPT ![reason] = @ + 1]
    /\ row_idx' = row_idx + 1
    /\ UNCHANGED <<paste_df, paste_columns, dbase, net_pay_col, db_idx, account_lookup, name_lookup,
                   bank_data, cash_data, bank_count, cash_count, processed_emp_ids,
                   outcome, cpc, skipped_rows>>
    /\ UNCHANGED <<rvars, pvars>>

Skip(reason) ==
    /\ skipped_rows' = skipped_rows + 1
    /\ skipped_details' = [skipped_details EXCEPT ![reason] = @ + 1]
    /\ row_idx' = row_idx + 1
    /\ UNCHANGED <<paste_df, paste_columns, dbase, net_pay_col, db_idx, account_lookup, name_lookup,
                   bank_data, cash_data, bank_count, cash_count, processed_emp_ids,
                   outcome, cpc>>
    /\ UNCHANGED <<rvars, pvars>>

(* lines 571-574 *)
SkipNoEmpId ==
    /\ AtRow
    /\ ResolveEmpId(paste_df[row_idx]) = ""
    /\ Skip("no_emp_id")

(* lines 576-580 *)
SkipDuplicate ==
    /\ AtRow
    /\ ResolveEmpId(paste_df[row_idx]) # ""
    /\ IsDuplicate(ResolveEmpId(paste_df[row_idx]), processed_emp_ids)
    /\ Skip("duplicate")

(* lines 582-587 *)
SkipKeyword ==
    /\ AtRow
    /\ ResolveEmpId(paste_df[row_idx]) # ""
    /\ ~IsDuplicate(ResolveEmpId(paste_df[row_idx]), processed_emp_ids)
    /\ HasKeyword(paste_df[row_idx])
    /\ Skip("keyword")

(* lines 589-598 *)
SkipZeroPay ==
    /\ AtRow
    /\ ResolveEmpId(paste_df[row_idx]) # ""
    /\ ~IsDuplicate(ResolveEmpId(paste_df[row_idx]), processed_emp_ids)
    /\ ~HasKeyword(paste_df[row_idx])
    /\ IsZeroPay(NetPay(paste_df[row_idx], net_pay_col))
    /\ Skip("zero_pay")

Classifiable ==
    /\ AtRow
    /\ ResolveEmpId(paste_df[row_idx]) # ""
    /\ ~IsDuplicate(ResolveEmpId(paste_df[row_idx]), processed_emp_ids)
    /\ ~HasKeyword(paste_df[row_idx])
    /\ ~IsZeroPay(NetPay(paste_df[row_idx], net_pay_col))

(* lines 600-647: the employee has an account *)
ClassifyBank ==
    /\ Classifiable
    /\ LET row == paste_df[row_idx]
           emp_id == ResolveEmpId(row)
       IN /\ HasAccount(emp_id, account_lookup)
          /\ bank_data' = Append(bank_data,
                [AccountNo |-> BankAccount(account_lookup[emp_id]),
                 NetPay |-> NetPay(row, net_pay_col),
                 Name |-> EmployeeName(row, emp_id, name_lookup)])
          /\ processed_emp_ids' = MarkProcessed(processed_emp_ids, emp_id)
    /\ bank_count' = bank_count + 1
    /\ row_idx' = row_idx + 1
    /\ UNCHANGED <<paste_df, paste_columns, dbase, net_pay_col, db_idx, account_lookup, name_lookup,
                   cash_data, skipped_rows, cash_count, skipped_details, outcome, cpc>>
    /\ UNCHANGED <<rvars, pvars>>

(* a cash classification that stores the name it built in name_lookup *)
ClassifyCashCachingName ==
    /\ Classifiable
    /\ LET row == paste_df[row_idx]
           emp_id == ResolveEmpId(row)
       IN /\ ~HasAccount(emp_id, account_lookup)
          /\ cash_data' = Append(cash_data,
                [EmpID |-> emp_id,
                 NetPay |-> NetPay(row, net_pay_col),
                 Name |-> EmployeeName(row, emp_id, name_lookup)])
          /\ name_lookup' = Put(name_lookup, emp_id, EmployeeName(row, emp_id, name_lookup))
          /\ processed_emp_ids' = MarkProcessed(processed_emp_ids, emp_id)
    /\ cash_count' = cash_count + 1
    /\ row_idx' = row_idx + 1
    /\ UNCHANGED <<paste_df, paste_columns, dbase, net_pay_col, db_idx, account_lookup,
                   bank_data, skipped_rows, bank_count, skipped_details, outcome, cpc>>
    /\ UNCHANGED <<rvars, pvars>>

(* lines 600-623, 648-660: the employee has no account *)
ClassifyCash ==
    /\ Classifiable
    /\ LET row == paste_df[row_idx]
           emp_id == ResolveEmpId(row)
       IN /\ ~HasAccount(emp_id, account_lookup)
          /\ cash_data' = Append(cash_data,
                [EmpID |-> emp_id,
                 NetPay |-> NetPay(row, net_pay_col),
                 Name |-> EmployeeName(row, emp_id, name_lookup)])
          /\ processed_emp_ids' = MarkProcessed(processed_emp_ids, emp_id)
    /\ cash_count' = cash_count + 1
    /\ row_idx' = row_idx + 1
    /\ UNCHANGED <<paste_df, paste_columns, dbase, net_pay_col, db_idx, account_lookup, name_lookup,
                   bank_data, skipped_rows, bank_count, skipped_details, outcome, cpc>>
    /\ UNCHANGED <<rvars, pvars>>

(* raises as soon as one of the collections is empty *)
NothingClassifiedEither(bank, cash) == bank = <<>> \/ cash = <<>>

(* not bank_data and not cash_data (line 677) *)
NothingClassified(bank, cash) == bank = <<>> /\ cash = <<>>

(* lines 677-682: raise ValueError("No valid employee records found...") *)
NoValidRecords ==
    /\ cpc = "rows"
    /\ row_idx > Len(paste_df)
    /\ NothingClassified(bank_data, cash_data)
    /\ outcome' = [kind |-> "NoValidRecords",
                   accounts |-> Cardinality(DOMAIN account_lookup),
                   names |-> Cardinality(DOMAIN name_lookup)]
    /\ cpc' = "raised"
    /\ UNCHANGED <<paste_df, paste_columns, dbase, net_pay_col, db_idx, account_lookup, name_lookup,
                   row_idx, bank_data, cash_data, skipped_rows, bank_count, cash_count,
                   processed_emp_ids, skipped_details>>
    /\ UNCHANGED <<rvars, pvars>>

(* the dictionary returned at lines 684-712 *)
ReturnValue(bank_df, cash_df) ==
    [kind |-> "returned",
     bank |-> bank_df,
     cash |-> cash_df,
     bank_total |-> SumNetPay(bank_df),
     cash_total |-> SumNetPay(cash_df),
     total |-> SumNetPay(bank_df) + SumNetPay(cash_df),
     bank_count |-> bank_count,
     cash_count |-> cash_count]

(* lines 684-712 *)
Return ==
    /\ cpc = "rows"
    /\ row_idx > Len(paste_df)
    /\ ~NothingClassified(bank_data, cash_data)
    /\ \E bank_df \in SortedByName(bank_data), cash_df \in SortedByName(cash_data) :
          outcome' = ReturnValue(bank_df, cash_df)
    /\ cpc' = "returned"
    /\ UNCHANGED <<paste_df, paste_columns, dbase, net_pay_col, db_idx, account_lookup, name_lookup,
                   row_idx, bank_data, cash_data, skipped_rows, bank_count, cash_count,
                   processed_emp_ids, skipped_details>>
    /\ UNCHANGED <<rvars, pvars>>

NextBDO ==
    \/ DbaseSampleError \/ LocateNetPay \/ NetPayNotFound
    \/ IndexRow \/ IndexBuilt
    \/ SkipNoEmpId \/ SkipDuplicate \/ SkipKeyword \/ SkipZeroPay
    \/ ClassifyBank \/ ClassifyCash
    \/ NoValidRecords \/ Return

(***************************************************************************)
(* Properties of the disbursement classifier                               *)
(***************************************************************************)
CurRow == paste_df[row_idx]

RowStep == AtRow /\ row_idx' = row_idx + 1

SkippedAs(reason) ==
    /\ skipped_rows' = skipped_rows + 1
    /\ skipped_details' = [skipped_details EXCEPT ![reason] = @ + 1]
    /\ bank_data' = bank_data
    /\ cash_data' = cash_data

ClassifiedStep ==
    /\ Len(bank_data') + Len(cash_data') = Len(bank_data) + Len(cash_data) + 1
    /\ skipped_rows' = skipped_rows
    /\ skipped_details' = skipped_details

(* the row carries a keyword in one of its first five cells *)
KeywordInFirstFive(row) ==
    \E c \in 0..4, keyword \in {"TOTAL", "GRAND", "CCR", "CODE", "NAME", "ACCOUNT"} :
        ~isna(row[c]) /\ Contains(upper(PyStr(row[c])), keyword)

(* the row would be classified if its identifier had not been classified before *)
Payable(row) == ~KeywordInFirstFive(row) /\ safe_float(row[net_pay_col]) > 0

(* C5 as stated: a row whose identifier appears in an earlier row is skipped
   and counted under 'duplicate' *)
C5_FirstOccurrenceOnly ==
    [][(RowStep /\ ResolveEmpId(CurRow) # ""
        /\ \E j \in 1..(row_idx - 1) : ResolveEmpId(paste_df[j]) = ResolveEmpId(CurRow))
       => SkippedAs("duplicate")]_vars

(* C5 amended: a row is skipped and counted under 'duplicate' exactly when an
   earlier row with the same identifier has no keyword and a positive net
   pay, that is, when the identifier has been classified; the first such row
   is the one classified, and earlier rows with the identifier that were
   skipped for a keyword or a non-positive pay do not make it a duplicate *)
C5_DuplicateAfterClassified ==
    [][(RowStep /\ ResolveEmpId(CurRow) # "")
       => LET classifiedBefore ==
                \E j \in 1..(row_idx - 1) :
                    /\ ResolveEmpId(paste_df[j]) = ResolveEmpId(CurRow)
                    /\ Payable(paste_df[j])
          IN /\ classifiedBefore => SkippedAs("duplicate")
             /\ ~classifiedBefore =>
                    /\ skipped_details'.duplicate = skipped_details.duplicate
                    /\ Payable(CurRow) => ClassifiedStep]_vars

C5_Witness ==
    /\ cpc = "rows"
    /\ row_idx = 4
    /\ skipped_details.zero_pay = 1
    /\ skipped_details.duplicate = 1
    /\ bank_count = 1
    /\ ResolveEmpId(paste_df[1]) = ResolveEmpId(paste_df[3])
    /\ ResolveEmpId(paste_df[2]) = ResolveEmpId(paste_df[3])

(* C6: a record is created only for an identifier that has no record yet, in
   exactly one of the two collections, existing records are never changed,
   and the number of records equals the number of identifiers classified *)
C6_OneRecordPerIdentifier ==
    /\ [](Cardinality(processed_emp_ids) = Len(bank_data) + Len(cash_data))
    /\ [][(bank_data' # bank_data \/ cash_data' # cash_data)
          => /\ AtRow
             /\ ResolveEmpId(CurRow) \notin processed_emp_ids
             /\ processed_emp_ids' = processed_emp_ids \cup {ResolveEmpId(CurRow)}
             /\ \A r \in 1..Len(cash_data) : cash_data[r].EmpID # ResolveEmpId(CurRow)
             /\ \/ /\ Len(bank_data') = Len(bank_data) + 1
                   /\ SubSeq(bank_data', 1, Len(bank_data)) = bank_data
                   /\ cash_data' = cash_data
                \/ /\ Len(cash_data') = Len(cash_data) + 1
                   /\ SubSeq(cash_data', 1, Len(cash_data)) = cash_data
                   /\ cash_data'[Len(cash_data')].EmpID = ResolveEmpId(CurRow)
                   /\ bank_data' = bank_data]_vars

C6_Witness ==
    /\ bank_data # <<>>
    /\ cash_data # <<>>
    /\ skipped_details.duplicate >= 1

(* the account field of a reference row coerced to digits only *)
DigitsOnly(acct_val) ==
    IF IsStr(acct_val) THEN FilterDigits(acct_val[2])
    ELSE NatToStr(IF acct_val[2] < 0 THEN 0 - acct_val[2] ELSE acct_val[2])

(* C7: an account is stored for an employee only if a reference row of that
   employee holds an account field with at least 10 digits *)
C7_AccountStoredOnlyIfTenDigits ==
    \A emp_id \in DOMAIN account_lookup :
        \E n \in 1..(db_idx - 1) :
            /\ BeforeDot(DbEmpId(dbase[n])) = emp_id
            /\ ~isna(dbase[n][3])
            /\ Len(DigitsOnly(dbase[n][3])) >= 10

(* C8: a classified row goes to the bank collection exactly when the index
   holds an account for its identifier, with "00", then zeros up to 10 digits,
   then the digits of the account; otherwise to the cash collection *)
C8_BankIffAccount ==
    [][(RowStep /\ (bank_data' # bank_data \/ cash_data' # cash_data))
       => LET emp_id == ResolveEmpId(CurRow)
          IN IF emp_id \in DOMAIN account_lookup
             THEN LET digits == FilterDigits(account_lookup[emp_id])
                      acct == bank_data'[Len(bank_data')].AccountNo
                      width == IF Len(digits) > 10 THEN Len(digits) ELSE 10
                  IN /\ Len(bank_data') = Len(bank_data) + 1
                     /\ cash_data' = cash_data
                     /\ Len(acct) = 2 + width
                     /\ SubSeq(acct, Len(acct) - Len(digits) + 1, Len(acct)) = digits
                     /\ \A i \in 1..(Len(acct) - Len(digits)) : CharAt(acct, i) = "0"
                     /\ account_lookup[emp_id] = "00012345678" => acct = "0000012345678"
             ELSE /\ Len(cash_data') = Len(cash_data) + 1
                  /\ cash_data'[Len(cash_data')].EmpID = emp_id
                  /\ bank_data' = bank_data]_vars

C8_Witness ==
    /\ \E r \in 1..Len(bank_data) : bank_data[r].AccountNo = "0000012345678"
    /\ \E r \in 1..Len(cash_data) : cash_data[r].EmpID = "1002"
    /\ "1002" \notin DOMAIN account_lookup

(* C9: a row is skipped (counted, nothing raised, no record added) exactly when
   it has no identifier, or its identifier was already marked as seen, or its
   first five cells carry a keyword, or its net pay is <= 0; every other row
   is classified *)
C9_SkippedIff ==
    [][AtRow
       => LET row == CurRow
              skip == \/ ResolveEmpId(row) = ""
                      \/ ResolveEmpId(row) \in processed_emp_ids
                      \/ KeywordInFirstFive(row)
                      \/ safe_float(row[net_pay_col]) <= 0
          IN /\ row_idx' = row_idx + 1
             /\ cpc' = "rows"
             /\ outcome' = outcome
             /\ skip => /\ skipped_rows' = skipped_rows + 1
                        /\ bank_data' = bank_data
                        /\ cash_data' = cash_data
             /\ ~skip => /\ skipped_rows' = skipped_rows
                         /\ Len(bank_data') + Len(cash_data')
                                = Len(bank_data) + Len(cash_data) + 1]_vars

C9_Witness ==
    /\ cpc = "rows"
    /\ row_idx = 4
    /\ skipped_details.keyword = 1
    /\ skipped_details.zero_pay = 1
    /\ cash_count = 1

IsPermutation(a, b) ==
    /\ Len(a) = Len(b)
    /\ \E p \in Perms(1..Len(a)) : \A i \in 1..Len(a) : a[i] = b[p[i]]

(* C10: once all payroll rows are processed convert raises NoValidRecords,
   with the sizes of the two lookups, exactly when both collections are empty,
   and otherwise returns the two collections and the totals *)
C10_NoValidRecordsIffEmpty ==
    /\ (cpc = "rows" /\ row_idx > Len(paste_df)) =>
          IF bank_data = <<>> /\ cash_data = <<>>
          THEN ENABLED NoValidRecords /\ ~ENABLED Return
          ELSE ENABLED Return /\ ~ENABLED NoValidRecords
    /\ outcome.kind = "NoValidRecords" =>
          /\ row_idx = Len(paste_df) + 1
          /\ bank_data = <<>> /\ cash_data = <<>>
          /\ outcome.accounts = Cardinality(DOMAIN account_lookup)
          /\ outcome.names = Cardinality(DOMAIN name_lookup)
    /\ outcome.kind = "returned" =>
          /\ row_idx = Len(paste_df) + 1
          /\ bank_data # <<>> \/ cash_data # <<>>
          /\ IsPermutation(outcome.bank, bank_data)
          /\ IsPermutation(outcome.cash, cash_data)
          /\ outcome.total = outcome.bank_total + outcome.cash_total

C10_Witness ==
    /\ outcome.kind = "NoValidRecords"
    /\ outcome.accounts >= 1
    /\ skipped_rows >= 2

C10_WitnessReturned ==
    /\ outcome.kind = "returned"
    /\ outcome.bank = <<>>
    /\ Len(outcome.cash) >= 2

(***************************************************************************)
(* The net pay locator on its own: convert up to the end of lines 417-470, *)
(* on tables tall enough for the scans that ask for more than 10 values.   *)
(***************************************************************************)
MaxTall == 11

LocHeights == {3, MaxTall}
LocWidths == {34, 43}

(* the cell of row i in a column of the given kind *)
LocCell(kind, i) ==
    IF kind = "pay" THEN IntC(20000 + 1000 * (i % 21))
    ELSE IF kind = "low" THEN IntC(500)
    ELSE IF kind = "edge" THEN IntC(1000)
    ELSE IF kind = "few" THEN (IF i <= 10 THEN FloatC(30000) ELSE IntC(0))
    ELSE NaN

LocRow(i, w, k33, k34, k42, k25, k20, k3) ==
    [c \in 0..(w - 1) |->
        IF c = 33 THEN LocCell(k33, i) ELSE IF c = 34 THEN LocCell(k34, i)
        ELSE IF c = 42 THEN LocCell(k42, i) ELSE IF c = 25 THEN LocCell(k25, i)
        ELSE IF c = 20 THEN LocCell(k20, i)
        ELSE IF c = 3 THEN LocCell(k3, i) ELSE NaN]

LocTable(n, w, k33, k34, k42, k25, k20, k3) ==
    [i \in 1..n |-> LocRow(i, w, k33, k34, k42, k25, k20, k3)]

(* header=None labels, and labels read from a header row *)
IntLabels(w) == [c \in 0..(w - 1) |-> IntC(c)]
TextLabels(w) ==
    [c \in 0..(w - 1) |->
        IF c = 3 THEN StrC("Net Pay") ELSE IF c = 20 THEN StrC("BASIC PAY")
        ELSE IF c = 33 THEN StrC("Total") ELSE IntC(c)]

InitLocator ==
    /\ \E n \in LocHeights, w \in LocWidths,
          k33 \in {"nan", "pay", "low", "edge"}, k34 \in {"nan", "pay", "few"},
          k42 \in {"nan", "pay"}, k25 \in {"nan", "pay"},
          k20 \in {"nan", "pay", "low", "few"},
          k3 \in {"nan", "low", "pay"} :
            /\ paste_df = LocTable(n, w, k33, k34, k42, k25, k20, k3)
            /\ paste_columns \in {IntLabels(w), TextLabels(w)}
    /\ dbase = <<DRow(IntC(1001), StrC("Cruz, Ana M."), StrC("00012345678"), StrC("A"))>>
    /\ net_pay_col = NoCol
    /\ db_idx = 1
    /\ account_lookup = EmptyDict
    /\ name_lookup = EmptyDict
    /\ row_idx = 1
    /\ bank_data = <<>>
    /\ cash_data = <<>>
    /\ skipped_rows = 0
    /\ bank_count = 0
    /\ cash_count = 0
    /\ processed_emp_ids = {}
    /\ skipped_details = [no_emp_id |-> 0, zero_pay |-> 0, keyword |-> 0, duplicate |-> 0]
    /\ outcome = [kind |-> "running"]
    /\ cpc = "start"
    /\ RollupIdle
    /\ ProcIdle

NextLocator == LocateNetPay \/ NetPayNotFound

(* ---- properties of the locator ---- *)
Located == cpc # "start"

PositiveCount(c) == Cardinality({i \in 1..Len(paste_df) : safe_float(paste_df[i][c]) > 0})

RECURSIVE PositiveSum(_, _)
PositiveSum(c, n) ==
    IF n = 0 THEN 0
    ELSE PositiveSum(c, n - 1)
         + (IF safe_float(paste_df[n][c]) > 0 THEN safe_float(paste_df[n][c]) ELSE 0)

(* the mean of the positive values of column c lies strictly between 1,000 and 200,000 *)
Plausible(c) ==
    /\ PositiveCount(c) > 0
    /\ PositiveSum(c, Len(paste_df)) > 1000 * PositiveCount(c)
    /\ PositiveSum(c, Len(paste_df)) < 200000 * PositiveCount(c)

AllColumns == 0..(RowLen(paste_columns) - 1)

Priority == <<33, 34, 35, 32, 31, 40, 41, 42>>

ByPriority == {i \in 1..Len(Priority) : Priority[i] \in AllColumns /\ Plausible(Priority[i])}

FromRight ==
    {c \in AllColumns : c > 0 /\ c > RowLen(paste_columns) - 30
                        /\ PositiveCount(c) > 10 /\ Plausible(c)}

HeaderMatches(c) ==
    /\ IsStr(paste_columns[c])
    /\ \/ Contains(lower(paste_columns[c][2]), "net")
       \/ Contains(lower(paste_columns[c][2]), "pay")

ByHeader == {c \in AllColumns : HeaderMatches(c) /\ PositiveCount(c) > 10}

Least(S) == CHOOSE x \in S : \A y \in S : x <= y
Greatest(S) == CHOOSE x \in S : \A y \in S : x >= y

ExpectedColumn ==
    IF ByPriority # {} THEN Priority[Least(ByPriority)]
    ELSE IF FromRight # {} THEN Greatest(FromRight)
    ELSE IF ByHeader # {} THEN Least(ByHeader)
    ELSE NoCol

(* C11: the locator returns the first listed column with a plausible mean,
   else the rightmost scanned column with more than 10 positive values and a
   plausible mean, else the first column with a net/pay header and more than
   10 positive values, else it fails; a later strategy decides only when
   every earlier one found nothing *)
C11_StrategiesInOrder ==
    Located =>
        IF ExpectedColumn = NoCol
        THEN outcome.kind = "ColumnNotFound" /\ net_pay_col = NoCol
        ELSE outcome.kind = "running" /\ net_pay_col = ExpectedColumn

C11_Witness ==
    /\ Located
    /\ ByPriority = {}
    /\ FromRight = {}
    /\ ByHeader = {3, 20}
    /\ net_pay_col = 3

C11_WitnessFromRight ==
    /\ Located
    /\ ByPriority = {}
    /\ FromRight = {20, 25}
    /\ net_pay_col = 25

C11_WitnessPriority ==
    /\ Located
    /\ RowLen(paste_columns) = 43
    /\ ~Plausible(33) /\ Plausible(34) /\ Plausible(42)
    /\ net_pay_col = 34

(* column 33 holds only values in [20000, 40000] and no other column is plausible *)
OnlyColumn33 ==
    /\ Len(paste_df) > 0
    /\ \A i \in 1..Len(paste_df) :
          /\ IsNum(paste_df[i][33])
          /\ paste_df[i][33][2] >= 20000 /\ paste_df[i][33][2] <= 40000
    /\ \A c \in AllColumns \ {33} : ~Plausible(c)

NoColumnInRange == \A c \in AllColumns : ~Plausible(c)

(* C12 as stated: the example table gives 33, and a table without any column
   meeting the range test makes the locator fail with ColumnNotFound *)
C12_RangeTestDecides ==
    Located =>
        /\ OnlyColumn33 => net_pay_col = 33
        /\ NoColumnInRange => outcome.kind = "ColumnNotFound"

(* C12 amended: the example table gives 33; a table without any column meeting
   the range test makes the locator fail with ColumnNotFound unless a column
   with a net/pay header holds more than 10 positive values, which is then
   the column returned *)
C12_RangeTestOrHeader ==
    Located =>
        /\ OnlyColumn33 => net_pay_col = 33 /\ outcome.kind = "running"
        /\ (NoColumnInRange /\ ByHeader = {}) => outcome.kind = "ColumnNotFound"
        /\ (NoColumnInRange /\ ByHeader # {}) =>
              net_pay_col = Least(ByHeader) /\ outcome.kind = "running"

C12_Witness ==
    /\ outcome.kind = "ColumnNotFound"
    /\ NoColumnInRange
    /\ PositiveCount(33) > 10
    /\ HeaderMatches(3)

C12_WitnessExample == Located /\ OnlyColumn33 /\ net_pay_col = 33

C12_WitnessHeader ==
    /\ Located
    /\ NoColumnInRange
    /\ net_pay_col = 3

(***************************************************************************)
(* PayrollProcessor.process: add_lookups, sort_data, add_13th_month, then  *)
(* insert_subtotals.  A table is a sequence of rows, a row a function of   *)
(* the column positions 0..w-1, and the labels are kept beside it.         *)
(***************************************************************************)
ZeroBased(seq) == [c \in 0..(Len(seq) - 1) |-> seq[c + 1]]
OneBased(f) == [i \in 1..RowLen(f) |-> f[i - 1]]

(* characters in ascending code order *)
AsciiOrder == " ,-.0123456789ABCDEFGHIJKLMNOPQRSTUVWXYZ_abcdefghijklmnopqrstuvwxyz"
Ord(ch) == CHOOSE i \in 1..Len(AsciiOrder) : CharAt(AsciiOrder, i) = ch

(* a < b of two str *)
RECURSIVE StrLess(_, _)
StrLess(a, b) ==
    IF b = "" THEN FALSE
    ELSE IF a = "" THEN TRUE
    ELSE IF CharAt(a, 1) = CharAt(b, 1)
         THEN StrLess(SubSeq(a, 2, Len(a)), SubSeq(b, 2, Len(b)))
    ELSE Ord(CharAt(a, 1)) < Ord(CharAt(b, 1))

(* equality of two cells as pandas hashes them: 1001 == 1001.0 *)
CellEq(a, b) ==
    \/ a = b
    \/ IsNum(a) /\ IsNum(b) /\ a[2] = b[2]

(* the order of sort_values on one column, na_position='last' *)
CellLess(a, b) ==
    IF isna(a) THEN FALSE
    ELSE IF isna(b) THEN TRUE
    ELSE IF IsNum(a) /\ IsNum(b) THEN a[2] < b[2]
    ELSE IF IsStr(a) /\ IsStr(b) THEN StrLess(a[2], b[2])
    ELSE FALSE

CellTie(a, b) == (isna(a) /\ isna(b)) \/ (~isna(a) /\ ~isna(b) /\ CellEq(a, b))

(* r1 sorts strictly before r2 on the columns by[i..] *)
RECURSIVE RowLess(_, _, _, _)
RowLess(r1, r2, by, i) ==
    IF i > Len(by) THEN FALSE
    ELSE IF CellLess(r1[by[i]], r2[by[i]]) THEN TRUE
    ELSE IF CellTie(r1[by[i]], r2[by[i]]) THEN RowLess(r1, r2, by, i + 1)
    ELSE FALSE

(* r put behind every row of sorted that does not sort after it *)
InsertBehindEquals(sorted, r, by) ==
    LET n == Cardinality({i \in 1..Len(sorted) : ~RowLess(r, sorted[i], by, 1)})
    IN SubSeq(sorted, 1, n) \o <<r>> \o SubSeq(sorted, n + 1, Len(sorted))

(* r put in front of the rows it ties with *)
InsertBeforeEquals(sorted, r, by) ==
    LET n == Cardinality({i \in 1..Len(sorted) : RowLess(sorted[i], r, by, 1)})
    IN SubSeq(sorted, 1, n) \o <<r>> \o SubSeq(sorted, n + 1, Len(sorted))

(* an unstable sort: ties come out in reverse input order *)
RECURSIVE sort_values_unstable(_, _, _)
sort_values_unstable(table, by, n) ==
    IF n = 0 THEN <<>>
    ELSE InsertBeforeEquals(sort_values_unstable(table, by, n - 1), table[n], by)

(* DataFrame.sort_values(by=[...], na_position='last') on several columns:
   a lexsort, which keeps ties in input order *)
RECURSIVE sort_values(_, _, _)
sort_values(table, by, n) ==
    IF n = 0 THEN <<>>
    ELSE InsertBehindEquals(sort_values(table, by, n - 1), table[n], by)

(* ---- the reference table as PayrollProcessor reads it ---- *)
DbWidth(d) == IF d = <<>> THEN 6 ELSE RowLen(d[1])

(* the index built by set_index(columns[0]) holds an identifier twice *)
HasDuplicateIds(d) ==
    \E i, j \in 1..Len(d) : i < j /\ CellEq(d[i][0], d[j][0])

(* the lookup filled with '' where the identifier is not found *)
MapFillBlank(d, key, col) ==
    IF \E n \in 1..Len(d) : CellEq(d[n][0], key) /\ ~isna(d[n][col])
    THEN d[CHOOSE n \in 1..Len(d) : CellEq(d[n][0], key)][col]
    ELSE Blank

(* Series.map(dbase.set_index(col0)[col]) for one key, then fillna('Not in dbase') *)
MapFill(d, key, col) ==
    IF \E n \in 1..Len(d) : CellEq(d[n][0], key) /\ ~isna(d[n][col])
    THEN d[CHOOSE n \in 1..Len(d) : CellEq(d[n][0], key)][col]
    ELSE StrC("Not in dbase")

HasLabel(columns, label) == \E c \in DOMAIN columns : columns[c] = label
LabelIndex(columns, label) ==
    CHOOSE c \in DOMAIN columns : columns[c] = label /\ \A b \in DOMAIN columns :
                                                           columns[b] = label => c <= b

(* self.df[label] = values: an existing column is overwritten, a new one goes last *)
SetColumn(table, columns, label, values) ==
    IF HasLabel(columns, label)
    THEN [df |-> [i \in 1..Len(table) |->
                    [c \in DOMAIN columns |->
                        IF columns[c] = label THEN values[i] ELSE table[i][c]]],
          columns |-> columns]
    ELSE [df |-> [i \in 1..Len(table) |->
                    [c \in 0..RowLen(columns) |->
                        IF c = RowLen(columns) THEN values[i] ELSE table[i][c]]],
          columns |-> [c \in 0..RowLen(columns) |->
                        IF c = RowLen(columns) THEN label ELSE columns[c]]]

(* self.df[cols] for a list of labels of a frame with unique labels *)
SelectColumns(table, columns, cols) ==
    [df |-> [i \in 1..Len(table) |->
                [c \in 0..(Len(cols) - 1) |-> table[i][LabelIndex(columns, cols[c + 1])]]],
     columns |-> ZeroBased(cols)]

(* lines 141-154 *)
add_lookups(table, columns, d) ==
    LET ccr == SetColumn(table, columns, "CCR_CODE",
                         [i \in 1..Len(table) |-> MapFill(d, table[i][0], 5)])
        acct == SetColumn(ccr.df, ccr.columns, "ACCT_NO",
                          [i \in 1..Len(table) |-> MapFill(d, ccr.df[i][0], 3)])
        rest == SelectSeq(OneBased(acct.columns),
                          LAMBDA col : col \notin {"CCR_CODE", "ACCT_NO", acct.columns[0]})
    IN SelectColumns(acct.df, acct.columns,
                     <<"CCR_CODE", acct.columns[0], "ACCT_NO">> \o rest)

(* a label sort_values is asked to sort by names more than one column *)
AmbiguousLabel(columns, by) ==
    \E i \in 1..Len(by) :
        Cardinality({c \in DOMAIN columns : columns[c] = columns[by[i]]}) > 1

(* lambda x: safe_float(x) / 12.0, on amounts that are multiples of 12 *)
Thirteenth(x) == FloatC(safe_float(x) \div 12)

(* lines 176-179 *)
add_13th_month(table, columns) ==
    IF RowLen(columns) > 7
    THEN SetColumn(table, columns, "13TH_MONTH",
                   [i \in 1..Len(table) |-> Thirteenth(table[i][7])])
    ELSE [df |-> table, columns |-> columns]

(* the dtype pandas holds a column of these cells in *)
InferDtype(table, c) ==
    IF table = <<>> THEN "object"
    ELSE IF \A i \in 1..Len(table) : table[i][c][1] = "int" THEN "int64"
    ELSE IF \A i \in 1..Len(table) : IsNum(table[i][c]) \/ isna(table[i][c]) THEN "float64"
    ELSE "object"

(* ---- tables PayrollProcessor is constructed with ---- *)
MaxRawRows == 3
RawWidths == {1, 2, 5, 6, 8}

RawLabels == <<"EMP_ID", "NAME", "POSITION", "RATE", "DAYS", "BASIC", "ALLOWANCE", "GROSS">>

(* a payroll row as read_excel returns it: identifier, name, ..., basic pay *)
RawRow(emp, name, basic) ==
    [c \in 0..7 |->
        IF c = 0 THEN emp ELSE IF c = 1 THEN name ELSE IF c = 2 THEN StrC("Packer")
        ELSE IF c = 5 THEN IntC(basic) ELSE IF c = 7 THEN IntC(basic + 600)
        ELSE IntC(12)]

RawRows ==
    { RawRow(IntC(1002), StrC("Reyes, Ben"), 12000),
      RawRow(IntC(1001), StrC("Cruz, Ana M."), 24000),
      RawRow(IntC(1001), StrC("Cruz, Ana M."), 36000),
      RawRow(IntC(1009), NaN, 12000) }

RECURSIVE RawTables(_)
RawTables(n) ==
    IF n = 0 THEN {<<>>}
    ELSE RawTables(n - 1)
         \cup {Append(t, r) : t \in {u \in RawTables(n - 1) : Len(u) = n - 1}, r \in RawRows}

(* the first w columns of a table, of a list of labels *)
Narrow(table, w) == [i \in 1..Len(table) |-> [c \in 0..(w - 1) |-> table[i][c]]]
FirstLabels(labels, w) == [c \in 0..(w - 1) |-> labels[c + 1]]

(* reference tables of 6 columns, one of them with a cost-center code that
   sorts after "Not in dbase", and the first 4 and 2 columns of one *)
RefChoices ==
    DbaseChoices
    \cup {<<DRow(IntC(1001), StrC("Cruz, Ana M."), StrC("00012345678"), StrC("A")),
            DRow(IntC(1002), StrC("Reyes, Ben"), StrC("55"), StrC("P"))>>}
    \cup {Narrow(d, w) : d \in {e \in DbaseChoices : Len(e) = 2}, w \in {2, 4}}

(* PayrollProcessor(payroll_df, dbase_df), process() about to run *)
InitProc ==
    /\ \E t \in RawTables(MaxRawRows), w \in RawWidths :
          /\ raw_df = Narrow(t, w)
          /\ self_columns = FirstLabels(RawLabels, w)
    /\ self_df = raw_df
    /\ dbase \in RefChoices
    /\ ppc = "lookups"
    /\ perror = ""
    /\ run = 1
    /\ first_report = <<>>
    /\ paste_df = <<>>
    /\ paste_columns = <<>>
    /\ net_pay_col = NoCol
    /\ db_idx = 1
    /\ account_lookup = EmptyDict
    /\ name_lookup = EmptyDict
    /\ row_idx = 1
    /\ bank_data = <<>>
    /\ cash_data = <<>>
    /\ skipped_rows = 0
    /\ bank_count = 0
    /\ cash_count = 0
    /\ processed_emp_ids = {}
    /\ skipped_details = [no_emp_id |-> 0, zero_pay |-> 0, keyword |-> 0, duplicate |-> 0]
    /\ outcome = [kind |-> "idle"]
    /\ cpc = "idle"
    /\ df = <<>>
    /\ dtype = [c \in InputCols |-> "object"]
    /\ grouped = <<>>
    /\ result_dfs = <<>>
    /\ dept_counter = 1
    /\ ind_prod_groups = <<>>
    /\ ind_qa_groups = <<>>
    /\ ind_warehouse_groups = <<>>
    /\ direct_prod_groups = <<>>
    /\ all_employee_rows = <<>>
    /\ final_df = <<>>
    /\ pc = "idle"

(* self.add_lookups(), line 369 *)
AddLookups ==
    /\ ppc = "lookups"
    /\ DbWidth(dbase) >= 6
    /\ ~HasDuplicateIds(dbase) \/ self_df = <<>>
    /\ LET out == add_lookups(self_df, self_columns, dbase)
       IN /\ self_df' = out.df
          /\ self_columns' = out.columns
    /\ ppc' = "sort"
    /\ UNCHANGED <<raw_df, perror, run, first_report>>
    /\ UNCHANGED <<rvars, cvars>>

(* add_lookups raises: dbase.columns[5] or columns[3] is out of range, or
   Series.map meets an index that is not unique; re-raised at line 158 *)
AddLookupsError ==
    /\ ppc = "lookups"
    /\ \/ DbWidth(dbase) < 6 /\ perror' = "IndexError"
       \/ DbWidth(dbase) >= 6 /\ HasDuplicateIds(dbase) /\ perror' = "InvalidIndexError"
    /\ ppc' = "error"
    /\ UNCHANGED <<raw_df, self_df, self_columns, run, first_report>>
    /\ UNCHANGED <<rvars, cvars>>

SortKeys == <<0, 1, 3>>

(* self.sort_data(), line 370 *)
SortData ==
    /\ ppc = "sort"
    /\ RowLen(self_columns) > 3
    /\ ~AmbiguousLabel(self_columns, SortKeys)
    /\ self_df' = sort_values(self_df, SortKeys, Len(self_df))
    /\ ppc' = "13th"
    /\ UNCHANGED <<raw_df, self_columns, perror, run, first_report>>
    /\ UNCHANGED <<rvars, cvars>>

(* sort_data raises: columns[3] is out of range, or a label of the sort
   names two columns; re-raised at line 170 *)
SortDataError ==
    /\ ppc = "sort"
    /\ \/ RowLen(self_columns) <= 3 /\ perror' = "IndexError"
       \/ RowLen(self_columns) > 3 /\ AmbiguousLabel(self_columns, SortKeys)
          /\ perror' = "ValueError"
    /\ ppc' = "error"
    /\ UNCHANGED <<raw_df, self_df, self_columns, run, first_report>>
    /\ UNCHANGED <<rvars, cvars>>

(* self.add_13th_month(), line 371 *)
Add13thMonth ==
    /\ ppc = "13th"
    /\ LET out == add_13th_month(self_df, self_columns)
       IN /\ self_df' = out.df
          /\ self_columns' = out.columns
    /\ ppc' = "subtotals"
    /\ UNCHANGED <<raw_df, perror, run, first_report>>
    /\ UNCHANGED <<rvars, cvars>>

(* self.insert_subtotals() is entered, lines 186-200 *)
EnterSubtotals ==
    /\ ppc = "subtotals"
    /\ df' = self_df
    /\ dtype' = [c \in DOMAIN self_columns |-> InferDtype(self_df, c)]
    /\ grouped' = groupby(self_df)
    /\ result_dfs' = <<>>
    /\ dept_counter' = 1
    /\ ind_prod_groups' = <<>>
    /\ ind_qa_groups' = <<>>
    /\ ind_warehouse_groups' = <<>>
    /\ direct_prod_groups' = <<>>
    /\ all_employee_rows' = <<>>
    /\ final_df' = <<>>
    /\ pc' = "loop"
    /\ ppc' = "rollup"
    /\ UNCHANGED <<raw_df, self_df, self_columns, perror, run, first_report>>
    /\ UNCHANGED cvars

(* insert_subtotals returns, process returns self.df *)
LeaveSubtotals ==
    /\ ppc = "rollup"
    /\ pc = "done"
    /\ self_df' = final_df
    /\ ppc' = "returned"
    /\ UNCHANGED <<raw_df, self_columns, perror, run, first_report>>
    /\ UNCHANGED <<rvars, cvars>>

(* insert_subtotals raises, process re-raises *)
SubtotalsError ==
    /\ ppc = "rollup"
    /\ pc = "error"
    /\ perror' = "ValueError"
    /\ ppc' = "error"
    /\ UNCHANGED <<raw_df, self_df, self_columns, run, first_report>>
    /\ UNCHANGED <<rvars, cvars>>

(* a second PayrollProcessor on the enriched, sorted table of the first *)
Rerun ==
    /\ ppc = "returned"
    /\ run = 1
    /\ first_report' = self_df
    /\ raw_df' = df
    /\ self_df' = df
    /\ run' = 2
    /\ ppc' = "lookups"
    /\ UNCHANGED <<self_columns, perror>>
    /\ UNCHANGED <<rvars, cvars>>

NextProc ==
    \/ AddLookups \/ AddLookupsError \/ SortData \/ SortDataError \/ Add13thMonth
    \/ EnterSubtotals \/ VisitGroup \/ GrandTotal \/ ConcatError
    \/ LeaveSubtotals \/ SubtotalsError \/ Rerun

(* the reference index of convert() over a whole table, lines 479-530 *)
RECURSIVE BuildAccountLookup(_, _)
BuildAccountLookup(d, n) ==
    IF n = 0 THEN EmptyDict
    ELSE AccountLookupAfter(BuildAccountLookup(d, n - 1), d[n])

RECURSIVE BuildNameLookup(_, _)
BuildNameLookup(d, n) ==
    IF n = 0 THEN EmptyDict
    ELSE NameLookupAfter(BuildNameLookup(d, n - 1), d[n])

(***************************************************************************)
(* Properties of the payroll pipeline.                                     *)
(***************************************************************************)
Sentinel == StrC("Not in dbase")
Finished == ppc \in {"returned", "error"}

(* number of columns of the table process() was given *)
RawWidth ==
    Cardinality({c \in DOMAIN self_columns :
                    self_columns[c] \notin {"CCR_CODE", "ACCT_NO", "13TH_MONTH"}})

(* C13: process fails with InsufficientColumns whenever the payroll table
   has fewer than 8 columns, and not with it when it has 8 or more *)
C13_InsufficientColumnsIffNarrow ==
    (Finished /\ run = 1) =>
        ((ppc = "error" /\ perror = "InsufficientColumns") <=> RawWidth < 8)

(* C14: indexing the reference table fails only if the table has fewer than
   2 columns; add_lookups raises on no table of 2 or more columns *)
C14_MalformedOnlyUnderTwoColumns ==
    [][(ppc = "lookups" /\ ppc' = "error") => DbWidth(dbase) < 2]_vars

(* reference rows holding the identifier of a payroll record *)
RefRowsOf(id) == {n \in 1..Len(dbase) : CellEq(dbase[n][0], id)}

(* record i of the enriched table carries what the claim says it carries *)
EnrichedAsClaimed(enriched, i) ==
    IF RefRowsOf(enriched[i][1]) = {}
    THEN enriched[i][0] = Sentinel /\ enriched[i][2] = Sentinel
    ELSE \E n \in RefRowsOf(enriched[i][1]) :
            enriched[i][0] = dbase[n][5] /\ enriched[i][2] = dbase[n][3]

(* C15: add_lookups raises no error; a record whose identifier is not in the
   reference table gets "Not in dbase" as grouping key and as account, a
   record whose identifier is found gets the cost-center code and account
   number of its reference row *)
C15_SentinelNotError ==
    [][(ppc = "lookups" /\ run = 1) =>
          /\ ppc' = "sort"
          /\ Len(self_df') = Len(self_df)
          /\ \A i \in 1..Len(self_df') : EnrichedAsClaimed(self_df', i)]_vars

(* the sort key of a record: grouping key, identifier column, secondary key *)
SortKey(row) == <<row[0], row[1], row[3]>>

(* key a does not sort after key b; a missing component sorts last *)
RECURSIVE KeyLeq(_, _, _)
KeyLeq(a, b, i) ==
    IF i > 3 THEN TRUE
    ELSE IF isna(a[i]) /\ isna(b[i]) THEN KeyLeq(a, b, i + 1)
    ELSE IF isna(b[i]) THEN TRUE
    ELSE IF isna(a[i]) THEN FALSE
    ELSE IF a[i] = b[i] THEN KeyLeq(a, b, i + 1)
    ELSE IF IsStr(a[i]) THEN StrLess(a[i][2], b[i][2])
    ELSE a[i][2] < b[i][2]

(* out is the records of inp ordered by sort key, ties in input order *)
StableSortOf(inp, out) ==
    /\ Len(out) = Len(inp)
    /\ \E perm \in [1..Len(inp) -> 1..Len(inp)] :
          /\ \A i, j \in 1..Len(inp) : i # j => perm[i] # perm[j]
          /\ \A i \in 1..Len(inp) : out[i] = inp[perm[i]]
          /\ \A i, j \in 1..Len(inp) :
                i < j => /\ KeyLeq(SortKey(out[i]), SortKey(out[j]), 1)
                         /\ SortKey(out[i]) = SortKey(out[j]) => perm[i] < perm[j]

(* C16: sort_data outputs a permutation of the enriched records, ascending by
   (grouping key, identifier column, secondary key) with missing values last,
   and records with identical keys keep their relative input order *)
C16_StableSort ==
    [][(ppc = "sort" /\ ppc' = "13th") => StableSortOf(self_df, self_df')]_vars

(* the enriched table of the first run, before it is sorted *)
EnrichedInput ==
    add_lookups(raw_df, FirstLabels(RawLabels, RowLen(raw_df[1])), dbase).df

(* sort_data has reordered three records, two of which tie on the sort key
   and differ in pay *)
C16_Witness ==
    /\ ppc = "13th"
    /\ run = 1
    /\ Len(self_df) = 3
    /\ RowLen(self_columns) = 8
    /\ self_df # EnrichedInput
    /\ SortKey(self_df[1]) = SortKey(self_df[2])
    /\ self_df[1] # self_df[2]
    /\ isna(self_df[3][3])
    /\ EnrichedInput[1] = self_df[3]

(* the identifier of a payroll record as convert() keys its lookups *)
ClassifierKey(cell) == BeforeDot(strip(PyStr(cell)))

(* C17: enrichment and the classifier see the same reference table alike: an
   identifier is found by add_lookups iff convert() has a lookup entry for
   it, and the account add_lookups attaches is the account convert()
   resolves, or both have none *)
C17_ConsumersAgree ==
    (ppc = "sort" /\ run = 1) =>
        LET accounts == BuildAccountLookup(dbase, Len(dbase))
            names == BuildNameLookup(dbase, Len(dbase))
        IN \A i \in 1..Len(self_df) :
              LET key == ClassifierKey(self_df[i][1])
              IN /\ (RefRowsOf(self_df[i][1]) # {})
                        <=> (key \in DOMAIN accounts \cup DOMAIN names)
                 /\ IF key \in DOMAIN accounts
                    THEN PyStr(self_df[i][2]) = accounts[key]
                    ELSE self_df[i][2] = Sentinel

(* C18: process() run on the enriched, sorted table of a first run returns
   the report of the first run *)
C18_RerunGivesSameReport ==
    (run = 2 /\ Finished) => (ppc = "returned" /\ self_df = first_report)

(***************************************************************************)
(* Properties of the partitions insert_subtotals visits.                   *)
(***************************************************************************)
(* records whose grouping key is null or blank *)
Discarded == {n \in 1..Len(df) : isna(KeyOf(df[n])) \/ KeyOf(df[n]) = Blank}
Kept == (1..Len(df)) \ Discarded

(* C19: a partition whose grouping key is null or blank is discarded: none
   of its records is in the report, it has no SubtotalRow, it does not
   advance the partition counter, and the GrandTotalRow neither counts nor
   sums its records *)
C19_NullOrBlankDiscarded ==
    pc = "done" =>
        LET g == final_df[Len(final_df)]
        IN /\ \A n \in Discarded : \A i \in 1..Len(final_df) : final_df[i] # df[n]
           /\ \A i \in 1..(Len(final_df) - 1) :
                 (isna(final_df[i][0]) \/ final_df[i][0] = Blank)
                    => final_df[i][1][1] # "int"
           /\ Visited = Cardinality({KeyOf(df[n]) : n \in Kept})
           /\ g[1] = IntC(Cardinality(Kept))
           /\ g[7] = IntC(FieldTotal(df, Kept, 7))

(* C20: partitions are visited in ascending key order, the counter starts at
   1 and advances once per visited partition, and the SubtotalRow of the k-th
   visited partition is labelled with entry k of the fixed table (TOTAL
   IND2001 .. TOTAL IND1002 for k = 1..16) whatever its key, and with
   "TOTAL {key}" beyond the table *)
C20_AscendingVisitFixedLabels ==
    pc \in {"loop", "done"} =>
        LET L == Layout
            rows == IF pc = "done" THEN final_df ELSE result_dfs
            todo == SelectSeq(grouped, LAMBDA name : ~isna(name))
        IN /\ dept_counter >= 1
           /\ Len(DEPT_TOTALS) = 16
           /\ DEPT_TOTALS[1] = "TOTAL IND2001"
           /\ DEPT_TOTALS[16] = "TOTAL IND1002"
           /\ Visited + Len(todo) = Len(L.key)
           /\ todo = SubSeq(L.key, Visited + 1, Len(L.key))
           /\ \A k \in 1..Visited :
                 /\ rows[L.pos[k]][0] = L.key[k]
                 /\ rows[L.pos[k]][2] =
                        StrC(IF k <= 16 THEN DEPT_TOTALS[k] ELSE "TOTAL " \o L.key[k][2])

(* seventeen partitions were visited: the first is labelled from the table
   though its key is A, the last by its key *)
C20_Witness ==
    /\ pc = "done"
    /\ Visited = 17
    /\ Layout.key[1] = StrC("A")
    /\ final_df[Layout.pos[1]][2] = StrC("TOTAL IND2001")
    /\ final_df[Layout.pos[17]][2] = StrC("TOTAL " \o Layout.key[17][2])

(* every cell of column c of the input table is a number or missing *)
NumericAcrossTable(c) == \A n \in 1..Len(df) : IsNum(df[n][c]) \/ isna(df[n][c])

(* C21: whether a field at position >= 7 is summed is decided per column over
   the whole table: a column that is numeric across the table is summed in
   every SubtotalRow and in the GrandTotalRow, a missing cell counting 0; any
   other column is blank, not 0, in all of them, even where the records of
   one partition are all numeric *)
C21_SummedPerColumn ==
    pc = "done" =>
        LET L == Layout
            g == final_df[Len(final_df)]
        IN \A c \in NumericCols :
              IF NumericAcrossTable(c)
              THEN /\ \A k \in 1..Len(L.key) :
                         /\ IsNum(final_df[L.pos[k]][c])
                         /\ final_df[L.pos[k]][c][2] = FieldTotal(df, Members(L.key[k]), c)
                   /\ IsNum(g[c])
                   /\ g[c][2] = FieldTotal(EmployeeRecords, 1..Len(EmployeeRecords), c)
              ELSE /\ \A k \in 1..Len(L.key) : final_df[L.pos[k]][c] = Blank
                   /\ g[c] = Blank

(* column 8 is numeric in the first partition and text in the second, and
   the SubtotalRow of the first partition leaves it blank; column 7 is summed *)
C21_Witness ==
    /\ pc = "done"
    /\ Visited >= 2
    /\ \A n \in Members(Layout.key[1]) : IsNum(df[n][8])
    /\ \E n \in Members(Layout.key[2]) : IsStr(df[n][8])
    /\ final_df[Layout.pos[1]][8] = Blank
    /\ IsNum(final_df[Layout.pos[1]][7])

(* column 8 holds a missing cell and is summed *)
C21_WitnessMissingCell ==
    /\ pc = "done"
    /\ NumericAcrossTable(8)
    /\ \E n \in 1..Len(EmployeeRecords) : isna(EmployeeRecords[n][8])
    /\ final_df[Len(final_df)][8][2] > 0

(* records of the input in the partitions whose counter value is in bucket,
   keys being the keys of the partitions in the order of their visit *)
BucketRecords(bucket, keys) ==
    LET bkeys == {keys[k] : k \in bucket \cap (1..Len(keys))}
    IN {n \in 1..Len(df) : KeyOf(df[n]) \in bkeys}

(* the sum a RollupTotal is to show in field c, from the input table *)
BucketSum(records, c) ==
    IF c = 1 THEN Cardinality(records)
    ELSE IF c >= 7 /\ NumericAcrossTable(c) THEN FieldTotal(df, records, c)
    ELSE 0

(* C22: a RollupTotal row holds in each field the sum of the field over the
   SubtotalRows of its bucket when that sum is not zero and is blank where
   the sum is exactly zero; its label field holds the rollup label and its
   grouping-key field is blank *)
C22_RollupShowsNonzeroSums ==
    pc = "done" =>
        LET L == Layout
        IN \A cp \in Checkpoints :
              cp <= Visited =>
                LET r == final_df[L.pos[cp] + 1]
                    records == BucketRecords(DeclaredBucket(cp), L.key)
                IN /\ r[0] = Blank
                   /\ r[2] = StrC(RollupLabel(cp))
                   /\ \A c \in Cols \ {0, 2} :
                        LET total == BucketSum(records, c)
                        IN r[c] = IF total # 0 THEN FloatC(total) ELSE Blank

(* the first RollupTotal leaves pay blank, its bucket summing to zero, and
   shows the sum of column 8 *)
C22_Witness ==
    /\ pc = "done"
    /\ Visited >= 2
    /\ final_df[Layout.pos[2] + 1][7] = Blank
    /\ IsNum(final_df[Layout.pos[1]][7])
    /\ IsNum(final_df[Layout.pos[2] + 1][8])
    /\ final_df[Layout.pos[2] + 1][8][2] > 0

(***************************************************************************)
(* Properties of the reference index of the classifier.                    *)
(***************************************************************************)
(* the identifier a reference row is indexed under *)
IndexKey(row) == BeforeDot(DbEmpId(row))

(* reference row n is the last row of its identifier *)
LastOfItsIdentifier(n) ==
    /\ IsNumericToken(DbEmpId(dbase[n]))
    /\ \A m \in (n + 1)..Len(dbase) :
          IsNumericToken(DbEmpId(dbase[m])) => IndexKey(dbase[m]) # IndexKey(dbase[n])

(* lookup holds for key what a lookup built from one row alone holds *)
SameEntry(lookup, alone, key) ==
    /\ key \in DOMAIN lookup <=> key \in DOMAIN alone
    /\ key \in DOMAIN alone => lookup[key] = alone[key]

(* C23: when several reference rows hold the same identifier the last one
   wins: the built index records for the identifier the account, or the
   absence of one, and the name of the last row of that identifier *)
C23_LastRowWins ==
    cpc = "rows" =>
        \A n \in 1..Len(dbase) :
            LastOfItsIdentifier(n) =>
                /\ SameEntry(account_lookup, AccountLookupAfter(EmptyDict, dbase[n]),
                             IndexKey(dbase[n]))
                /\ SameEntry(name_lookup, NameLookupAfter(EmptyDict, dbase[n]),
                             IndexKey(dbase[n]))

(* the display name the index is to hold for a reference row *)
DisplayName(row) ==
    IF RowLen(row) > 1 /\ ~isna(row[1]) /\ strip(PyStr(row[1])) \notin {"", "nan"}
    THEN strip(PyStr(row[1]))
    ELSE "Employee " \o IndexKey(row)

(* C24: the name map holds an entry for every reference row whose identifier
   is a numeric token, the row's name when it has one and "Employee {id}"
   otherwise; a row whose identifier is not a numeric token adds no entry to
   the name map or the account map *)
C24_NameForEveryNumericIdentifier ==
    cpc = "rows" =>
        /\ \A n \in 1..Len(dbase) :
              IsNumericToken(DbEmpId(dbase[n])) =>
                  /\ IndexKey(dbase[n]) \in DOMAIN name_lookup
                  /\ LastOfItsIdentifier(n) =>
                        name_lookup[IndexKey(dbase[n])] = DisplayName(dbase[n])
        /\ \A key \in DOMAIN name_lookup \cup DOMAIN account_lookup :
              \E n \in 1..Len(dbase) :
                  IsNumericToken(DbEmpId(dbase[n])) /\ IndexKey(dbase[n]) = key

(***************************************************************************)
(* Properties of the payroll rows of the classifier, continued.            *)
(***************************************************************************)
(* the text of a cell as the classifier reads it *)
CellText(row, c) == strip(PyStr(row[c]))

(* positions 0, 2, 3 in that order whose cell is an all-digit token of
   length >= 4 *)
DigitPositions(row) ==
    SelectSeq(<<0, 2, 3>>, LAMBDA c : isdigit(CellText(row, c)) /\ Len(CellText(row, c)) >= 4)

(* the identifier of a payroll row, "" when it has none *)
ExpectedId(row) ==
    IF IsNumericToken(CellText(row, 1)) THEN BeforeDot(CellText(row, 1))
    ELSE IF DigitPositions(row) # <<>> THEN CellText(row, Head(DigitPositions(row)))
    ELSE ""

(* C25: the identifier of a row is the numeric token at position 1 when that
   cell is numeric, else the first cell among positions 0, 2, 3 that is an
   all-digit token of length >= 4; a row with neither has no identifier and
   is skipped for that, and an identifier taken from positions 0, 2 or 3 has
   at least 4 digits *)
C25_IdentifierResolution ==
    [][RowStep =>
          /\ (ExpectedId(CurRow) = "") <=> SkippedAs("no_emp_id")
          /\ processed_emp_ids' \subseteq processed_emp_ids \cup {ExpectedId(CurRow)}
          /\ cash_data' # cash_data =>
                cash_data'[Len(cash_data')].EmpID = ExpectedId(CurRow)
          /\ \A emp_id \in processed_emp_ids' \ processed_emp_ids :
                ~IsNumericToken(CellText(CurRow, 1)) =>
                    isdigit(emp_id) /\ Len(emp_id) >= 4]_vars

(* C26: the reference index is built before the first payroll row is read
   and is read-only afterwards: every step taken once the rows are being
   processed leaves the account lookup and the name lookup as the loop over
   the reference table built them *)
C26_IndexReadOnly ==
    [][cpc = "rows" =>
          /\ account_lookup = BuildAccountLookup(dbase, Len(dbase))
          /\ name_lookup = BuildNameLookup(dbase, Len(dbase))
          /\ account_lookup' = account_lookup
          /\ name_lookup' = name_lookup
          /\ dbase' = dbase]_vars

(* three rows were processed against a non-empty index: one went to the
   bank collection and one was skipped for a keyword *)
C26_Witness ==
    /\ cpc = "rows"
    /\ row_idx = 4
    /\ DOMAIN account_lookup # {}
    /\ DOMAIN name_lookup # {}
    /\ bank_count >= 1
    /\ skipped_details.keyword >= 1

(* the net pay of the records at the positions idx of a collection, added up *)
RECURSIVE NetPayOver(_, _)
NetPayOver(records, idx) ==
    IF idx = {} THEN 0
    ELSE LET i == CHOOSE j \in idx : TRUE
         IN records[i].NetPay + NetPayOver(records, idx \ {i})

(* C28: what convert returns is consistent: bank_count and cash_count are the
   sizes of the two collections, bank_total and cash_total the sums of the
   net pay of their records, total the sum of the two, and every record has
   a net pay above zero *)
C28_ReturnedTotals ==
    outcome.kind = "returned" =>
        /\ outcome.bank_count = Len(outcome.bank)
        /\ outcome.cash_count = Len(outcome.cash)
        /\ outcome.bank_total = NetPayOver(outcome.bank, 1..Len(outcome.bank))
        /\ outcome.cash_total = NetPayOver(outcome.cash, 1..Len(outcome.cash))
        /\ outcome.total = outcome.bank_total + outcome.cash_total
        /\ \A i \in 1..Len(outcome.bank) : outcome.bank[i].NetPay > 0
        /\ \A i \in 1..Len(outcome.cash) : outcome.cash[i].NetPay > 0

(* two bank records of different pay and a cash record were returned *)
C28_Witness ==
    /\ outcome.kind = "returned"
    /\ Len(outcome.bank) = 2
    /\ outcome.bank[1].NetPay # outcome.bank[2].NetPay
    /\ Len(outcome.cash) = 1

(* C29: after any number of payroll rows, bank_count + cash_count +
   skipped_rows is the number of rows processed, and skipped_rows is the sum
   of the four reason counters, a skipped row counting under one reason *)
C29_RowAccounting ==
    /\ bank_count + cash_count + skipped_rows = row_idx - 1
    /\ skipped_rows = skipped_details.no_emp_id + skipped_details.duplicate
                      + skipped_details.keyword + skipped_details.zero_pay
    /\ bank_count = Len(bank_data)
    /\ cash_count = Len(cash_data)

(* three rows: one without identifier, one without pay, one paid in cash *)
C29_Witness ==
    /\ row_idx = 4
    /\ skipped_details.no_emp_id = 1
    /\ skipped_details.zero_pay = 1
    /\ cash_count = 1

(* C27 as stated: for the example table of three groups "A", "B", "C" of two
   employees each, the report has 12 rows and the count of the GrandTotalRow
   is 4 *)
C27_ExampleCountFour ==
    (pc = "done" /\ IsExampleTable) =>
        /\ Len(final_df) = 12
        /\ final_df[12][1] = IntC(4)

(* C27, amended: for the example table the report has 12 rows and the count
   of the GrandTotalRow is 6, the six employee records of the three groups *)
C27_ExampleCountSix ==
    (pc = "done" /\ IsExampleTable) =>
        /\ Len(final_df) = 12
        /\ RowKind(final_df[12]) = "grand"
        /\ final_df[12][1] = IntC(6)
        /\ Len(EmployeeRecords) = 6

(* the report of the example table is finished and ends in its grand total *)
C27_Witness ==
    /\ pc = "done"
    /\ IsExampleTable
    /\ Visited = 3
    /\ final_df[Len(final_df)][2] = StrC("GRAND TOTAL DAILY")

(***************************************************************************)
(* Properties of the records process() does not find in the reference      *)
(* table.                                                                  *)
(***************************************************************************)
(* records of the table given to process() whose identifier has no row in
   the reference table *)
Absent == {i \in 1..Len(raw_df) : RefRowsOf(raw_df[i][0]) = {}}

(* C30: in process(), the records whose identifier is absent from the
   reference table are all in the report under the grouping key
   "Not in dbase"; they are one partition, visited between the keys that
   sort before and after "Not in dbase", which takes one value k of the
   partition counter, so that it and every later partition are labelled by
   their own counter value; the partition has its SubtotalRow, and the
   GrandTotalRow counts and sums its records with the others *)
C30_NotInDbasePartition ==
    (ppc = "returned" /\ Absent # {}) =>
        LET L == Layout
            g == final_df[Len(final_df)]
        IN /\ Cardinality(Members(Sentinel)) = Cardinality(Absent)
           /\ Visited = Len(L.key)
           /\ \E k \in 1..Len(L.key) :
                 /\ L.key[k] = Sentinel
                 /\ \A j \in 1..Len(L.key) :
                       /\ j < k => StrLess(L.key[j][2], Sentinel[2])
                       /\ j > k => StrLess(Sentinel[2], L.key[j][2])
                       /\ j >= k /\ j <= 16 => final_df[L.pos[j]][2] = StrC(DEPT_TOTALS[j])
                 /\ final_df[L.pos[k]][0] = Sentinel
                 /\ final_df[L.pos[k]][1] = IntC(Cardinality(Absent))
                 /\ \A n \in (L.pos[k] - Cardinality(Absent))..(L.pos[k] - 1) :
                       /\ final_df[n][0] = Sentinel
                       /\ RefRowsOf(final_df[n][1]) = {}
                       /\ \E i \in Absent : final_df[n][1] = raw_df[i][0]
                 /\ \A cp \in Checkpoints :
                       (k <= cp /\ cp <= Visited) =>
                           final_df[L.pos[cp] + 1][2] = StrC(RollupLabel(cp))
           /\ g[2] = StrC("GRAND TOTAL DAILY")
           /\ g[1] = IntC(Len(raw_df))
           /\ \A c \in DOMAIN self_columns :
                 (c >= 7 /\ IsNumericDtype(dtype[c])) =>
                     g[c][2] = FieldTotal(df, 1..Len(df), c)

(* a report of three partitions, the one of the absent identifiers second:
   the partition after it carries the third label *)
C30_Witness ==
    /\ ppc = "returned"
    /\ run = 1
    /\ Absent # {}
    /\ Len(Layout.key) = 3
    /\ Layout.key[2] = Sentinel
    /\ final_df[Layout.pos[3]][2] = StrC(DEPT_TOTALS[3])

Next == SkipGroup \/ VisitGroup \/ GrandTotal \/ ConcatError

Spec == Init /\ [][Next]_vars

SpecBDO == InitBDO /\ [][NextBDO]_vars

SpecLocator == InitLocator /\ [][NextLocator]_vars
SpecProc == InitProc /\ [][NextProc]_vars

====
